---- MODULE Spec2Model ----
(***************************************************************************)
(* A model of the MusicXML transposer: the pitch arithmetic and the key    *)
(* signature mapping of MusicTransposer, and the streaming rewriter        *)
(* SAXMusicXMLParser._transposeXMLWithSAX (opentag / text / closetag       *)
(* handlers over one pass of the document).                                *)
(*                                                                         *)
(* Strings of the program are sequences of atoms.  An atom is a TLA+       *)
(* string standing for an indivisible piece of text: a whole tag written   *)
(* without attributes ("<root>", "</root>"), one value ("C", "-1"), or one *)
(* whitespace character (" ", "\n").  String concatenation is \o on these  *)
(* sequences.  Optional values (undefined / null in the program) are       *)
(* sequences of length 0 or 1.                                             *)
(***************************************************************************)
EXTENDS Integers, Sequences, FiniteSets, TLC

\* ------------------------------------------------------------------ bounds
\* octaves of the pitch-arithmetic inputs range over -MaxOctave..MaxOctave
MaxOctave == 5
\* intervals of the pitch-arithmetic inputs range over -MaxSemitones..MaxSemitones
MaxSemitones == 13
\* key signatures given to the fifths rewrite range over -MaxFifths..MaxFifths
MaxFifths == 20

\* --------------------------------------------------------- JavaScript core
\* a % b of JavaScript for b > 0: the remainder takes the sign of the dividend
JsRem(a, b) == IF a >= 0 THEN a % b ELSE 0 - ((0 - a) % b)

\* Math.floor(a / b) for b > 0
MathFloorDiv(a, b) == a \div b

\* an optional value: <<>> is undefined, <<v>> is v
Undefined == <<>>
Some(v) == <<v>>

\* the strings parseInt and toString convert between, within the model's range
IntRange == -99..99

\* parseInt(s) of a one-value string: the number, or NaN (here Undefined, falsy)
parseInt(s) ==
  IF \E n \in IntRange : ToString(n) = s
    THEN Some(CHOOSE n \in IntRange : ToString(n) = s)
    ELSE Undefined

\* x is truthy, for an optional number (undefined, NaN and 0 are falsy)
TruthyNum(x) == x # Undefined /\ x[1] # 0

\* --------------------------------------------------------- MusicTransposer
noteMap ==
  ("C" :> 0) @@ ("C#" :> 1) @@ ("Db" :> 1) @@ ("D" :> 2) @@ ("D#" :> 3) @@
  ("Eb" :> 3) @@ ("E" :> 4) @@ ("F" :> 5) @@ ("F#" :> 6) @@ ("Gb" :> 6) @@
  ("G" :> 7) @@ ("G#" :> 8) @@ ("Ab" :> 8) @@ ("A" :> 9) @@ ("A#" :> 10) @@
  ("Bb" :> 10) @@ ("B" :> 11)

\* numberToNote[i] of the program is numberToNote[i + 1] here; each entry is
\* the sequence of its characters
numberToNote ==
  << <<"C">>, <<"C", "#">>, <<"D">>, <<"D", "#">>, <<"E">>, <<"F">>,
     <<"F", "#">>, <<"G">>, <<"G", "#">>, <<"A">>, <<"A", "#">>, <<"B">> >>

\* this.noteMap[step] || 0
noteMapOrZero(step) == IF step \in DOMAIN noteMap THEN noteMap[step] ELSE 0

\* the {step, alter, octave} built from the new note value and octave
spell(newNoteValue, newOctave) ==
  LET newNote == numberToNote[newNoteValue + 1]
      newStep == newNote[1]
      newAlter == IF Len(newNote) > 1
                    THEN (IF newNote[2] = "#" THEN 1
                          ELSE IF newNote[2] = "b" THEN -1 ELSE 0)
                    ELSE 0
  IN [step |-> newStep,
      alter |-> IF newAlter # 0 THEN Some(ToString(newAlter)) ELSE Undefined,
      octave |-> newOctave]

\* a transposeNote that spells the black keys with flats
transposeNote_flat(step, alter, octave, semitones) ==
  LET noteValue == noteMapOrZero(step) + (IF TruthyNum(alter) THEN alter[1] ELSE 0)
      totalSemitones == noteValue + (octave * 12) + semitones
      pc == totalSemitones % 12
      flats == << <<"C">>, <<"D", "b">>, <<"D">>, <<"E", "b">>, <<"E">>, <<"F">>,
                  <<"G", "b">>, <<"G">>, <<"A", "b">>, <<"A">>, <<"B", "b">>, <<"B">> >>
  IN [step |-> flats[pc + 1][1],
      alter |-> IF Len(flats[pc + 1]) > 1 THEN Some("-1") ELSE Undefined,
      octave |-> MathFloorDiv(totalSemitones, 12)]

\* MusicTransposer.transposeNote(step, alter, octave, semitones); alter is an
\* optional number
transposeNote(step, alter, octave, semitones) ==
  LET noteValue == noteMapOrZero(step) + (IF TruthyNum(alter) THEN alter[1] ELSE 0)
      totalSemitones == noteValue + (octave * 12) + semitones
      floorOctave == MathFloorDiv(totalSemitones, 12)
      rem == JsRem(totalSemitones, 12)
      newNoteValue == IF rem < 0 THEN rem + 12 ELSE rem
      newOctave == IF rem < 0 THEN floorOctave - 1 ELSE floorOctave
  IN spell(newNoteValue, newOctave)

\* the wrap of a fifths value: while (f > 7) f -= 12; while (f < -7) f += 12
RECURSIVE wrapDown(_)
wrapDown(f) == IF f > 7 THEN wrapDown(f - 12) ELSE f
RECURSIVE wrapUp(_)
wrapUp(f) == IF f < -7 THEN wrapUp(f + 12) ELSE f

\* MusicTransposer.transposeKeySignature(keyElement, semitones), keyElement
\* being {fifths: "<n>"}: the new text of keyElement.fifths
transposeKeySignature(keyElement, semitones) ==
  IF keyElement.fifths = Undefined
    THEN keyElement
    ELSE LET currentFifths == parseInt(keyElement.fifths[1])
             newFifths == wrapUp(wrapDown(currentFifths[1] + semitones))
         IN [keyElement EXCEPT !.fifths =
               IF currentFifths = Undefined THEN Some("NaN")
               ELSE Some(ToString(newFifths))]


\* -------------------------------------------------- strings of the rewriter
null == "null"

OpenTag(name) == "<" \o name \o ">"
CloseTag(name) == "</" \o name \o ">"

\* the element names of the documents the model feeds to the rewriter
Names ==
  {"measure", "harmony", "root", "root-step", "root-alter", "bass", "bass-step",
   "bass-alter", "kind", "note", "pitch", "step", "alter", "octave",
   "accidental", "key", "fifths", "mode", "a", "b",
   "score-partwise", "part", "barline", "bar-style", "part-list", "score-part"}

\* an opening tag with one attribute, as the opentag handlers serialize it
AttrTag(name, attr, value) ==
  "<" \o name \o " " \o attr \o "=\"" \o value \o "\">"

\* the most measures a part of a combined-score input has
MaxMeasures == 2
\* the most parts a combined-score input has
MaxParts == 2
\* the twelve keys of transposeToAllKeys
KeyCount == 12

PartIds == {"P" \o ToString(i) : i \in 1..MaxParts}
\* measure numbers are tokens: digits, or the X1 of an implicit measure
DigitNumbers == {ToString(k) : k \in 0..(KeyCount * MaxMeasures)}
MeasureNumbers == DigitNumbers \cup {"X1"}
PartTags == {AttrTag("part", "id", v) : v \in PartIds}
MeasureTags == {AttrTag("measure", "number", v) : v \in MeasureNumbers}
BarlineTags == {AttrTag("barline", "location", v) : v \in {"left", "right"}}

IsOpenTag(tok) ==
  \/ \E n \in Names : tok = OpenTag(n)
  \/ tok \in PartTags \cup MeasureTags \cup BarlineTags
IsCloseTag(tok) == \E n \in Names : tok = CloseTag(n)
NameOf(tok) ==
  IF tok \in PartTags THEN "part"
  ELSE IF tok \in MeasureTags THEN "measure"
  ELSE IF tok \in BarlineTags THEN "barline"
  ELSE CHOOSE n \in Names : tok = OpenTag(n) \/ tok = CloseTag(n)

Whitespace == {" ", "\n", "\t"}

\* String.prototype.trim on a sequence of atoms
RECURSIVE trimLeft(_)
trimLeft(s) ==
  IF s # <<>> /\ Head(s) \in Whitespace THEN trimLeft(Tail(s)) ELSE s
RECURSIVE trimRight(_)
trimRight(s) ==
  IF s # <<>> /\ s[Len(s)] \in Whitespace
    THEN trimRight(SubSeq(s, 1, Len(s) - 1)) ELSE s
trim(s) == trimRight(trimLeft(s))

\* the single string a sequence of atoms spells
RECURSIVE str(_)
str(s) == IF s = <<>> THEN "" ELSE Head(s) \o str(Tail(s))

\* ------------------------------------------------------------------- state
VARIABLES
  call,              \* the arguments of a call of a MusicTransposer method
  ret,               \* its optional result
  xmlData,           \* the document given to _transposeXMLWithSAX, as atoms
  pos,               \* how many atoms of xmlData the parser has delivered
  semitones,         \* the interval of the rewrite
  phase,             \* "parsing", "resolved" or "rejected": the promise
  output, elementStack, currentElement, textContent,
  insideHarmony, insideKey, insidePitch, insideAccidental,
  noteData, harmonyData, pitchBuffer,
  firstOutput,       \* the output of the previous pass, when a second one runs
  keyIndex,          \* the loop counter of transposeToAllKeys
  results,           \* the entries transposeToAllKeys has pushed
  outputFile,        \* the file at outputPath: absent, or its content
  combined,          \* the locals of parseStructure and of the combined score
  closures,          \* the locals of the rewrite calls whose handlers wait
  playback           \* the fields of a MusicPlaybackService and its timers

rewriterVars ==
  <<output, elementStack, currentElement, textContent, insideHarmony,
    insideKey, insidePitch, insideAccidental, noteData, harmonyData,
    pitchBuffer>>
driverVars ==
  <<keyIndex, results, outputFile, combined, closures, playback>>
vars ==
  <<call, ret, xmlData, pos, semitones, phase, rewriterVars, firstOutput,
    driverVars>>

\* noteData = {} and harmonyData = {}: every property undefined (flags falsy)
emptyNoteData ==
  [step |-> Undefined, alter |-> Undefined, octave |-> Undefined,
   transposedAlter |-> Undefined]

emptyHarmonyData ==
  ("root-step" :> Undefined) @@ ("root-alter" :> Undefined) @@
  ("bass-step" :> Undefined) @@ ("bass-alter" :> Undefined) @@
  [_transposedRoot |-> Undefined, _transposedBass |-> Undefined] @@
  [_needsRootAlter |-> FALSE, _needsBassAlter |-> FALSE,
   _hasOriginalRootAlter |-> FALSE, _hasOriginalBassAlter |-> FALSE,
   _updateRootStep |-> FALSE, _removeLastRootAlter |-> FALSE,
   _removeLastBassAlter |-> FALSE]

\* the locals of parseStructure and of the combined transposeToAllKeys, fresh
emptyCombined ==
  [header |-> <<>>, parts |-> <<>>, currentPart |-> Undefined,
   currentMeasure |-> <<>>, insideHeader |-> TRUE, insidePart |-> FALSE,
   insideMeasure |-> FALSE,
   output |-> <<>>, partIndex |-> 0, semitone |-> 0, measureIndex |-> 0,
   returned |-> FALSE]

\* no rewrite call waits: none runs, none has run alone
noClosures == [running |-> 0, saved |-> <<>>, alone |-> <<>>]

\* a MusicPlaybackService after construction, with its piano and a sequence
\* loaded, before any call of play(); the audio context runs or is suspended
newPlayback(running) ==
  [isPlaying |-> FALSE, scheduledTimeouts |-> <<>>, timers |-> {},
   running |-> running, awaiting |-> {}, plays |-> 0, ids |-> 0, now |-> 0,
   owner |-> 0, stopped |-> 0,
   last |-> [kind |-> "none", play |-> 0, owner |-> 0, sounded |-> FALSE,
             stopped |-> 0]]

\* no entry pushed and no file written yet
InitDriver ==
  /\ keyIndex = 0
  /\ results = <<>>
  /\ outputFile = Undefined
  /\ combined = emptyCombined
  /\ closures = noClosures
  /\ playback = newPlayback(TRUE)

\* the state of a fresh call of _transposeXMLWithSAX
InitRewriter ==
  /\ output = <<>>
  /\ elementStack = <<>>
  /\ currentElement = null
  /\ textContent = <<>>
  /\ insideHarmony = FALSE
  /\ insideKey = FALSE
  /\ insidePitch = FALSE
  /\ insideAccidental = FALSE
  /\ noteData = emptyNoteData
  /\ harmonyData = emptyHarmonyData
  /\ pitchBuffer = <<>>

\* ------------------------------------------------- the opentag handler
opentagOf(name, tag) ==
  LET inPitch == insidePitch \/ name = "pitch"
      inHarmony == insideHarmony \/ name = "harmony"
      inKey == insideKey \/ name = "key"
  IN
  /\ elementStack' = Append(elementStack, name)
  /\ noteData' = IF name = "note" THEN emptyNoteData ELSE noteData
  /\ insidePitch' = inPitch
  /\ insideAccidental' = (insideAccidental \/ name = "accidental")
  /\ insideHarmony' = inHarmony
  /\ harmonyData' = IF name = "harmony" THEN emptyHarmonyData ELSE harmonyData
  /\ insideKey' = inKey
  /\ currentElement' =
       IF inPitch /\ name \in {"step", "alter", "octave"} THEN name
       ELSE IF inHarmony /\
               name \in {"root-step", "root-alter", "bass-step", "bass-alter"}
         THEN name
       ELSE IF inKey /\ name = "fifths" THEN name
       ELSE null
  /\ IF inPitch
       THEN /\ pitchBuffer' =
                 (IF name = "pitch" THEN <<>> ELSE pitchBuffer) \o <<tag>>
            /\ output' = output
       ELSE /\ output' = output \o <<tag>>
            /\ pitchBuffer' = pitchBuffer
  /\ textContent' = <<>>

\* an element without attributes
opentag(name) == opentagOf(name, OpenTag(name))

\* ---------------------------------------------------- the text handler
text(t) ==
  /\ textContent' = textContent \o t
  /\ UNCHANGED <<output, elementStack, currentElement, insideHarmony, insideKey,
                 insidePitch, insideAccidental, noteData, harmonyData,
                 pitchBuffer>>

\* ------------------------------------------- string edits of the output
\* out.replace(/<root-step>([A-G])<\/root-step>/, `<root-step>${step}</root-step>`):
\* the first match only
replaceRootStep(out, step) ==
  LET matches == {i \in 1..(Len(out) - 2) :
                    /\ out[i] = OpenTag("root-step")
                    /\ out[i + 1] \in {"A", "B", "C", "D", "E", "F", "G"}
                    /\ out[i + 2] = CloseTag("root-step")}
  IN IF matches = {} THEN out
     ELSE LET i == CHOOSE m \in matches : \A n \in matches : m <= n
          IN [out EXCEPT ![i + 1] = step]

\* out.replace(/<name>.*?<\/name>/, ""): the first match only; "." matches no
\* line break, and the match ends at the first closing tag after its start
removeFirst(out, name) ==
  LET ends(i) == {j \in (i + 1)..Len(out) :
                    /\ out[j] = CloseTag(name)
                    /\ \A k \in (i + 1)..(j - 1) : out[k] # "\n"}
      starts == {i \in 1..Len(out) : out[i] = OpenTag(name) /\ ends(i) # {}}
  IN IF starts = {} THEN out
     ELSE LET i == CHOOSE m \in starts : \A n \in starts : m <= n
              j == CHOOSE m \in ends(i) : \A n \in ends(i) : m <= n
          IN SubSeq(out, 1, i - 1) \o SubSeq(out, j + 1, Len(out))

\* pos = out.lastIndexOf(tag); if (pos !== -1) out = out[0..pos) + ins + out[pos..]
insertBeforeLast(out, tag, ins) ==
  LET found == {i \in 1..Len(out) : out[i] = tag}
  IN IF found = {} THEN out
     ELSE LET p == CHOOSE m \in found : \A n \in found : m >= n
          IN SubSeq(out, 1, p - 1) \o ins \o SubSeq(out, p, Len(out))

\* ------------------------------------------------ the fifths rewrite
semitonesToFifthsMap == <<0, 7, 2, -3, 4, -1, 6, 1, -4, 3, -2, 5>>

\* a fifths rewrite that adds the semitones to the fifths
fifthsClose_naive(originalValue, s) ==
  LET currentFifths == parseInt(originalValue)
  IN IF currentFifths = Undefined THEN "NaN"
     ELSE ToString(wrapUp(wrapDown(currentFifths[1] + s)))

\* a fifths rewrite that adjusts by 12 once in each direction (if for while)
fifthsClose_wrapOnce(originalValue, s) ==
  LET currentFifths == parseInt(originalValue)
      normalizedSemitones == JsRem(JsRem(s, 12) + 12, 12)
      fifthsChange == semitonesToFifthsMap[normalizedSemitones + 1]
      f0 == currentFifths[1] + fifthsChange
      f1 == IF f0 > 7 THEN f0 - 12 ELSE f0
      f2 == IF f1 < -7 THEN f1 + 12 ELSE f1
  IN IF currentFifths = Undefined THEN "NaN" ELSE ToString(f2)

\* the text the rewriter writes for a fifths element holding originalValue
fifthsClose(originalValue, s) ==
  LET currentFifths == parseInt(originalValue)
      normalizedSemitones == JsRem(JsRem(s, 12) + 12, 12)
      fifthsChange == semitonesToFifthsMap[normalizedSemitones + 1]
      newFifths == wrapUp(wrapDown(currentFifths[1] + fifthsChange))
  IN IF currentFifths = Undefined THEN "NaN" ELSE ToString(newFifths)

\* ------------------------------------------------ the closetag handler
\* the harmony field branch: the new harmonyData and the text written
harmonyField(hd0, field, originalValue) ==
  LET hd == IF field \in DOMAIN hd0
              THEN [hd0 EXCEPT ![field] = Some(originalValue)] ELSE hd0
      isRoot == field \in {"root-step", "root-alter"}
      tKey == IF isRoot THEN "_transposedRoot" ELSE "_transposedBass"
      needs == IF isRoot THEN "_needsRootAlter" ELSE "_needsBassAlter"
      has == IF isRoot THEN "_hasOriginalRootAlter" ELSE "_hasOriginalBassAlter"
      remove == IF isRoot THEN "_removeLastRootAlter" ELSE "_removeLastBassAlter"
      stepKey == IF isRoot THEN "root-step" ELSE "bass-step"
  IN IF field \notin {"root-step", "root-alter", "bass-step", "bass-alter"}
       THEN [hd |-> hd0, transposedValue |-> originalValue]
     ELSE IF field \in {"root-step", "bass-step"}
       THEN LET transposed == transposeNote(originalValue, Some(0), 4, semitones)
            IN [hd |-> [hd EXCEPT ![tKey] = Some(transposed),
                                  ![needs] = (transposed.alter # Undefined),
                                  ![has] = FALSE],
                transposedValue |-> transposed.step]
       ELSE LET step == IF hd[stepKey] # Undefined THEN hd[stepKey][1] ELSE "C"
                transposed ==
                  transposeNote(step, parseInt(originalValue), 4, semitones)
                hd1 == [hd EXCEPT ![tKey] = Some(transposed),
                                  ![has] = TRUE,
                                  ![needs] = FALSE,
                                  !["_updateRootStep"] = (@ \/ isRoot)]
            IN IF transposed.alter # Undefined
                 THEN [hd |-> hd1, transposedValue |-> transposed.alter[1]]
                 ELSE [hd |-> [hd1 EXCEPT ![remove] = TRUE],
                       transposedValue |-> originalValue]

\* the edits of the output when a root container closes inside a harmony
rootClose(out, hd) ==
  LET out1 == IF hd["_updateRootStep"] /\ hd["_transposedRoot"] # Undefined
                THEN replaceRootStep(out, hd["_transposedRoot"][1].step)
                ELSE out
  IN IF hd["_removeLastRootAlter"]
       THEN removeFirst(out1, "root-alter")
     ELSE IF /\ hd["_needsRootAlter"]
             /\ ~hd["_hasOriginalRootAlter"]
             /\ hd["_transposedRoot"] # Undefined
             /\ hd["_transposedRoot"][1].alter # Undefined
       THEN insertBeforeLast(out1, CloseTag("root"),
              <<OpenTag("root-alter"), hd["_transposedRoot"][1].alter[1],
                CloseTag("root-alter")>>)
     ELSE out1

\* the edits of the output when a bass container closes inside a harmony
bassClose(out, hd) ==
  IF hd["_removeLastBassAlter"]
    THEN removeFirst(out, "bass-alter")
  ELSE IF /\ hd["_needsBassAlter"]
          /\ ~hd["_hasOriginalBassAlter"]
          /\ hd["_transposedBass"] # Undefined
          /\ hd["_transposedBass"][1].alter # Undefined
    THEN insertBeforeLast(out, CloseTag("bass"),
           <<OpenTag("bass-alter"), hd["_transposedBass"][1].alter[1],
             CloseTag("bass-alter")>>)
  ELSE out

\* an accidental naming that exchanges sharp and flat
accidentalName_swapped(transposedAlter, originalAccidental) ==
  IF transposedAlter = Undefined THEN originalAccidental
  ELSE CASE transposedAlter[1] = 1 -> "flat"
         [] transposedAlter[1] = -1 -> "sharp"
         [] transposedAlter[1] = 0 -> "natural"
         [] transposedAlter[1] = 2 -> "double-sharp"
         [] transposedAlter[1] = -2 -> "double-flat"
         [] OTHER -> originalAccidental

\* the canonical accidental name of a transposed alter
accidentalName(transposedAlter, originalAccidental) ==
  IF transposedAlter = Undefined THEN originalAccidental
  ELSE CASE transposedAlter[1] = 1 -> "sharp"
         [] transposedAlter[1] = -1 -> "flat"
         [] transposedAlter[1] = 0 -> "natural"
         [] transposedAlter[1] = 2 -> "double-sharp"
         [] transposedAlter[1] = -2 -> "double-flat"
         [] OTHER -> originalAccidental

\* a pitch element built with an alter element also for alter 0
transposedPitch_alwaysAlter(transposed) ==
  <<OpenTag("pitch"), OpenTag("step"), transposed.step, CloseTag("step"),
    OpenTag("alter"),
    IF transposed.alter # Undefined THEN transposed.alter[1] ELSE "0",
    CloseTag("alter"),
    OpenTag("octave"), ToString(transposed.octave), CloseTag("octave"),
    CloseTag("pitch")>>

\* the freshly built pitch element
transposedPitch(transposed) ==
  <<OpenTag("pitch"), OpenTag("step"), transposed.step, CloseTag("step")>> \o
  (IF transposed.alter # Undefined
     THEN <<OpenTag("alter"), transposed.alter[1], CloseTag("alter")>>
     ELSE <<>>) \o
  <<OpenTag("octave"), ToString(transposed.octave), CloseTag("octave"),
    CloseTag("pitch")>>

closetag(tagName) ==
  LET trimmed == trim(textContent)
      hasText == trimmed # <<>>
      originalValue == str(trimmed)
      capture == currentElement # null /\ hasText
      \* the pitch branch
      nd1 == IF ~capture THEN noteData
             ELSE IF currentElement = "step"
               THEN [noteData EXCEPT !.step = Some(originalValue)]
             ELSE IF currentElement = "alter"
               THEN [noteData EXCEPT !.alter = parseInt(originalValue)]
             ELSE IF currentElement = "octave"
               THEN [noteData EXCEPT !.octave = parseInt(originalValue)]
             ELSE noteData
      pb1 == pitchBuffer \o (IF capture THEN <<originalValue>> ELSE textContent)
      pb2 == IF tagName # "pitch" THEN pb1 \o <<CloseTag(tagName)>> ELSE pb1
      step == nd1.step
      alter == IF TruthyNum(nd1.alter) THEN nd1.alter ELSE Some(0)
      octave == IF TruthyNum(nd1.octave) THEN nd1.octave[1] ELSE 4
      transposed == transposeNote(step[1], alter, octave, semitones)
      tAlter == IF transposed.alter # Undefined
                  THEN parseInt(transposed.alter[1]) ELSE Some(0)
      \* the harmony / fifths branch
      inHarmonyField == insideHarmony /\ currentElement = tagName
      hf == harmonyField(harmonyData, currentElement, originalValue)
      \* 1. the text of the element
      branch == IF insidePitch THEN "pitch"
                ELSE IF insideAccidental /\ tagName = "accidental" /\ hasText
                  THEN "accidental"
                ELSE IF capture THEN "field"
                ELSE "verbatim"
      out1 == CASE branch = "pitch" ->
                     IF tagName # "pitch" THEN output
                     ELSE IF step # Undefined
                       THEN output \o transposedPitch(transposed)
                     ELSE output \o pb2
                [] branch = "accidental" ->
                     output \o <<accidentalName(noteData.transposedAlter,
                                                originalValue)>>
                [] branch = "field" ->
                     output \o
                       <<IF inHarmonyField THEN hf.transposedValue
                         ELSE IF insideKey /\ currentElement = "fifths"
                           THEN fifthsClose(originalValue, semitones)
                         ELSE originalValue>>
                [] OTHER -> output \o textContent
      nd2 == IF branch = "pitch" /\ tagName = "pitch" /\ step # Undefined
               THEN [nd1 EXCEPT !.transposedAlter = tAlter]
             ELSE IF branch = "pitch" THEN nd1 ELSE noteData
      hd1 == IF branch = "field" /\ inHarmonyField THEN hf.hd ELSE harmonyData
      inPitch1 == insidePitch /\ tagName # "pitch"
      \* 2. the closing tag
      out2 == IF ~inPitch1 /\ tagName # "pitch"
                THEN out1 \o <<CloseTag(tagName)>> ELSE out1
      \* 3. the alter element of a closing root or bass
      out3 == IF insideHarmony /\ tagName = "root" THEN rootClose(out2, hd1)
              ELSE IF insideHarmony /\ tagName = "bass" THEN bassClose(out2, hd1)
              ELSE out2
  IN
  /\ output' = out3
  /\ pitchBuffer' = IF branch # "pitch" THEN pitchBuffer
                    ELSE IF tagName = "pitch" THEN <<>> ELSE pb2
  /\ insidePitch' = inPitch1
  \* 4. the resets
  /\ noteData' = IF tagName = "note" THEN emptyNoteData ELSE nd2
  /\ insideAccidental' = (insideAccidental /\ tagName # "accidental")
  /\ insideHarmony' = (insideHarmony /\ tagName # "harmony")
  /\ harmonyData' = IF tagName = "harmony" THEN emptyHarmonyData ELSE hd1
  /\ insideKey' = (insideKey /\ tagName # "key")
  /\ elementStack' = SubSeq(elementStack, 1, Len(elementStack) - 1)
  /\ currentElement' = null
  /\ textContent' = <<>>

\* ------------------------------------------------------ the event source
\* The parser delivers the events of xmlData in order, synchronously within
\* one pass.  A document is either produced while it is read (Gen*, pos =
\* Len(xmlData) throughout) or given whole (Feed).

callVars == <<call, ret, driverVars>>

top == IF elementStack = <<>> THEN "" ELSE elementStack[Len(elementStack)]

\* the document is complete: its one top-level element has closed
complete == pos > 0 /\ elementStack = <<>> /\ pos = Len(xmlData)

GenOpen(name) ==
  /\ phase = "parsing" /\ pos = Len(xmlData) /\ ~complete
  /\ opentag(name)
  /\ xmlData' = Append(xmlData, OpenTag(name))
  /\ pos' = pos + 1
  /\ UNCHANGED <<callVars, semitones, phase, firstOutput>>

GenText(t) ==
  /\ phase = "parsing" /\ pos = Len(xmlData) /\ elementStack # <<>>
  /\ text(t)
  /\ xmlData' = xmlData \o t
  /\ pos' = pos + Len(t)
  /\ UNCHANGED <<callVars, semitones, phase, firstOutput>>

GenClose ==
  /\ phase = "parsing" /\ pos = Len(xmlData) /\ elementStack # <<>>
  /\ closetag(top)
  /\ xmlData' = Append(xmlData, CloseTag(top))
  /\ pos' = pos + 1
  /\ UNCHANGED <<callVars, semitones, phase, firstOutput>>

\* the next atom of a document given whole; a closing tag that does not match
\* the open element, and character data outside the root element, are the
\* parser's error event, which rejects the promise
Feed ==
  /\ phase = "parsing" /\ pos < Len(xmlData)
  /\ LET tok == xmlData[pos + 1]
     IN IF IsOpenTag(tok)
          THEN opentagOf(NameOf(tok), tok) /\ phase' = phase
        ELSE IF IsCloseTag(tok)
          THEN IF NameOf(tok) = top
                 THEN closetag(NameOf(tok)) /\ phase' = phase
                 ELSE phase' = "rejected" /\ UNCHANGED rewriterVars
        ELSE IF elementStack = <<>> /\ tok \notin Whitespace
          THEN phase' = "rejected" /\ UNCHANGED rewriterVars
        ELSE text(<<tok>>) /\ phase' = phase
  /\ pos' = pos + 1
  /\ UNCHANGED <<callVars, xmlData, semitones, firstOutput>>

\* the end event: resolve(output)
End ==
  /\ phase = "parsing" /\ complete
  /\ phase' = "resolved"
  /\ UNCHANGED <<callVars, xmlData, pos, semitones, rewriterVars, firstOutput>>

\* =====================================================================
\* SpecNote: calls of MusicTransposer.transposeNote
\* =====================================================================
idle ==
  /\ xmlData = <<>> /\ pos = 0 /\ semitones = 0 /\ phase = "idle"
  /\ firstOutput = <<>>
  /\ InitDriver
  /\ InitRewriter

StepLetters == {"A", "B", "C", "D", "E", "F", "G"}

InitNote ==
  /\ call \in [step : StepLetters \cup {"H"},
               alter : {Undefined} \cup {Some(a) : a \in -2..2},
               octave : -MaxOctave..MaxOctave,
               semitones : -MaxSemitones..MaxSemitones]
  /\ ret = Undefined
  /\ idle

TransposeNote ==
  /\ phase = "idle" /\ ret = Undefined
  /\ ret' = Some(transposeNote(call.step, call.alter, call.octave, call.semitones))
  /\ UNCHANGED <<call, xmlData, pos, semitones, phase, rewriterVars, firstOutput,
                 driverVars>>

NextNote == TransposeNote

SpecNote == InitNote /\ [][NextNote]_vars

\* the natural value of a step letter, and the sharp-preferring spelling table
naturalValue(step) ==
  CASE step = "C" -> 0 [] step = "D" -> 2 [] step = "E" -> 4 [] step = "F" -> 5
    [] step = "G" -> 7 [] step = "A" -> 9 [] step = "B" -> 11 [] OTHER -> 0
SpellingStep == <<"C", "C", "D", "D", "E", "F", "F", "G", "G", "A", "A", "B">>
SpellingSharp == <<0, 1, 0, 1, 0, 0, 1, 0, 1, 0, 1, 0>>

\* the total of a call, and the pitch class a returned (step, alter) spells
callTotal ==
  naturalValue(call.step) + (IF call.alter = Undefined THEN 0 ELSE call.alter[1])
    + 12 * call.octave + call.semitones
retPitchClass ==
  (naturalValue(ret[1].step)
     + (IF ret[1].alter = Undefined THEN 0 ELSE parseInt(ret[1].alter[1])[1])) % 12

\* C1: for every step letter A-G, alter, octave and signed semitones,
\* transposeNote returns octave floor(total / 12) and a (step, alter) spelling
\* pitch class total mod 12, also when total is negative; B natural by +1 gives
\* C in the next octave and C natural by -1 gives B in the octave below.
C1_TransposeIsTotalPitch ==
  (ret # Undefined /\ call.step \in StepLetters) =>
    /\ ret[1].octave = callTotal \div 12
    /\ retPitchClass = callTotal % 12
    /\ (call.step = "B" /\ ~TruthyNum(call.alter) /\ call.semitones = 1) =>
         (ret[1].step = "C" /\ ret[1].octave = call.octave + 1)
    /\ (call.step = "C" /\ ~TruthyNum(call.alter) /\ call.semitones = -1) =>
         (ret[1].step = "B" /\ ret[1].octave = call.octave - 1)

\* C2: for step A-G, alter in -2..2 and any octave, transposeNote with zero
\* semitones returns the pitch class and the octave number of its input.
C2_IdentityAtZero ==
  (ret # Undefined /\ call.step \in StepLetters /\ call.semitones = 0) =>
    /\ retPitchClass =
         (naturalValue(call.step)
            + (IF call.alter = Undefined THEN 0 ELSE call.alter[1])) % 12
    /\ ret[1].octave = call.octave

keyDocument(fifths) ==
  <<OpenTag("key"), OpenTag("fifths"), ToString(fifths), CloseTag("fifths"),
    CloseTag("key")>>

InitKey ==
  /\ call \in [fifths : -MaxFifths..MaxFifths,
               semitones : -MaxSemitones..MaxSemitones]
  /\ ret = Undefined
  /\ xmlData = keyDocument(call.fifths)
  /\ pos = 0
  /\ semitones = call.semitones
  /\ phase = "parsing"
  /\ firstOutput = <<>>
  /\ InitDriver
  /\ InitRewriter

TransposeKeySignature ==
  /\ ret = Undefined
  /\ ret' = Some(transposeKeySignature([fifths |-> Some(ToString(call.fifths))],
                                       call.semitones))
  /\ UNCHANGED <<call, xmlData, pos, semitones, phase, rewriterVars, firstOutput,
                 driverVars>>

NextKey == Feed \/ End \/ TransposeKeySignature

SpecKey == InitKey /\ [][NextKey]_vars

\* the fifths element of the key document has closed
fifthsClosed == pos >= 4
\* the text written for it
emittedFifths == output[3]

\* the delta table and the wrap of the key-signature mapping
FifthsDelta == <<0, 7, 2, -3, 4, -1, 6, 1, -4, 3, -2, 5>>
\* repeated -12 while above 7, then repeated +12 while below -7
Wrap(x) ==
  CHOOSE y \in -7..7 :
    /\ (y - x) % 12 = 0
    /\ (x > 7) => (y >= -4)
    /\ (x < -7) => (y =< 4)
    /\ (x \in -7..7) => (y = x)

\* C4: when a fifths element closes inside key, the rewriter emits
\* wrap(fifths + delta[((semitones mod 12) + 12) mod 12]); for every integer
\* fifths (also out of range) and every signed semitones the emitted value
\* lies in [-7, 7].
C4_FifthsRewrite ==
  fifthsClosed =>
    LET n == ((call.semitones % 12) + 12) % 12
        expected == Wrap(call.fifths + FifthsDelta[n + 1])
    IN /\ emittedFifths = ToString(expected)
       /\ parseInt(emittedFifths) # Undefined
       /\ parseInt(emittedFifths)[1] \in -7..7

\* an out-of-range key signature, more than one turn below -7, has been
\* rewritten by a negative interval and the pass has resolved
C4_Witness ==
  /\ phase = "resolved"
  /\ call.fifths < -7 - 12 /\ call.semitones < 0
  /\ parseInt(emittedFifths)[1] \in -7..7

\* C5: MusicTransposer.transposeKeySignature(fifths, s) returns the fifths the
\* streaming rewriter writes, for every fifths in [-7, 7] and s in [-11, 11];
\* fifths 0 by 7 semitones yields 1.
C5_KeySignatureAgrees ==
  (ret # Undefined /\ fifthsClosed
     /\ call.fifths \in -7..7 /\ call.semitones \in -11..11) =>
    /\ ret[1].fifths = Some(emittedFifths)
    /\ (call.fifths = 0 /\ call.semitones = 7) => ret[1].fifths = Some("1")

\* =====================================================================
\* SpecHarmony: documents of chord symbols through the rewriter
\* =====================================================================
\* the documents hold at most MaxEvents atoms (tags and values)
MaxEvents == 19
\* the interval of a rewrite ranges over -MaxShift..MaxShift
MaxShift == 1

\* a fresh call of _transposeXMLWithSAX(xmlData, s) on a document read as it
\* is produced
InitRewrite(S) ==
  /\ call = Undefined /\ ret = Undefined
  /\ xmlData = <<>> /\ pos = 0
  /\ semitones \in S
  /\ phase = "parsing"
  /\ firstOutput = <<>>
  /\ InitDriver
  /\ InitRewriter

\* the last atom read is the opening tag of the open element
justOpened == pos > 0 /\ xmlData[pos] = OpenTag(top)

\* the names of the children the open element has so far
childrenSoFar ==
  LET opens == {i \in 1..pos : xmlData[i] = OpenTag(top)}
      start == CHOOSE i \in opens : \A j \in opens : j <= i
  IN IF elementStack = <<>> THEN {}
     ELSE {n \in Names : \E i \in (start + 1)..pos : xmlData[i] = OpenTag(n)}

\* the elements the MusicXML schema allows once in their parent
Single ==
  {"root-step", "root-alter", "bass-step", "bass-alter", "pitch", "step",
   "alter", "octave"}
allowed(names) == {n \in names : n \in Single => n \notin childrenSoFar}

\* the grammar of the chord-symbol documents: the children of an element
harmonyChildren(parent) ==
  CASE parent = "" -> {"measure"}
    [] parent = "measure" -> {"harmony"}
    [] parent = "harmony" -> {"root", "bass"}
    [] parent = "root" -> {"root-step", "root-alter"}
    [] parent = "bass" -> {"bass-step", "bass-alter"}
    [] OTHER -> {}

\* the text of a leaf
harmonyTexts(parent) ==
  CASE parent \in {"root-step", "bass-step"} -> {<<"C">>, <<"E">>}
    [] parent \in {"root-alter", "bass-alter"} -> {<<"1">>, <<"-1">>}
    [] OTHER -> {}

InitHarmony == InitRewrite(-MaxShift..MaxShift)

NextHarmony ==
  \/ \E name \in allowed(harmonyChildren(top)) :
       /\ Len(xmlData) + Len(elementStack) + 2
            + (IF harmonyTexts(name) # {} THEN 1 ELSE 0) <= MaxEvents
       /\ GenOpen(name)
  \/ \E t \in harmonyTexts(top) : justOpened /\ GenText(t)
  \/ (harmonyTexts(top) # {} => ~justOpened) /\ GenClose
  \/ End

SpecHarmony == InitHarmony /\ [][NextHarmony]_vars


\* ------------------------------------------ reading documents as blocks
\* the positions of a tag in a string, and the k-th of a set of positions
positionsOf(s, tag) == {i \in 1..Len(s) : s[i] = tag}
nth(P, k) == CHOOSE i \in P : Cardinality({j \in P : j < i}) = k - 1
\* the k-th element of that name: from its opening tag to its closing tag
\* (to the end of the string when it has none)
blockOf(s, name, k) ==
  LET i == nth(positionsOf(s, OpenTag(name)), k)
      closes == {j \in positionsOf(s, CloseTag(name)) : j > i}
      j == IF closes = {} THEN Len(s)
           ELSE CHOOSE m \in closes : \A n \in closes : m <= n
  IN SubSeq(s, i, j)
blockCount(s, name) == Cardinality(positionsOf(s, OpenTag(name)))
\* the texts of the sub-elements of that name in a block
fieldsOf(block, field) ==
  {block[i + 1] : i \in {p \in positionsOf(block, OpenTag(field)) :
                          p + 2 <= Len(block) /\ block[p + 2] = CloseTag(field)}}
fieldCount(block, field) == Cardinality(positionsOf(block, OpenTag(field)))

\* the sharp spelling of step + alter + s: its step and its alteration (0 or 1)
spelledStep(step, alter, s) ==
  SpellingStep[((naturalValue(step) + alter + s) % 12) + 1]
spelledAlter(step, alter, s) ==
  SpellingSharp[((naturalValue(step) + alter + s) % 12) + 1]

Containers == {"root", "bass"}
stepOf(c) == c \o "-step"
alterOf(c) == c \o "-alter"

\* a root or bass container has just closed
justClosed(c) == pos > 0 /\ pos = Len(xmlData) /\ xmlData[pos] = CloseTag(c)
lastSource(c) == blockOf(xmlData, c, blockCount(xmlData, c))
lastOutput(c) == blockOf(output, c, blockCount(output, c))

\* C7: when a root (bass) container closes whose source had a step field and
\* no alter field, and the transposed spelling needs an alteration, exactly one
\* new root-alter (bass-alter) carrying the transposed alter is inserted right
\* before the container's own closing tag.
C7_AlterInserted ==
  \A c \in Containers :
    (/\ justClosed(c)
     /\ fieldCount(lastSource(c), stepOf(c)) = 1
     /\ fieldCount(lastSource(c), alterOf(c)) = 0) =>
      LET v == CHOOSE x \in fieldsOf(lastSource(c), stepOf(c)) : TRUE
      IN spelledAlter(v, 0, semitones) # 0 =>
           /\ output[Len(output)] = CloseTag(c)
           /\ lastOutput(c) =
                <<OpenTag(c), OpenTag(stepOf(c)), spelledStep(v, 0, semitones),
                  CloseTag(stepOf(c)), OpenTag(alterOf(c)),
                  ToString(spelledAlter(v, 0, semitones)), CloseTag(alterOf(c)),
                  CloseTag(c)>>


\* the number an atom spells
intOf(a) == parseInt(a)[1]
\* the step and the alter (0 when it has none) a source block states
sourceStep(src, c) == CHOOSE x \in fieldsOf(src, stepOf(c)) : TRUE
sourceAlter(src, c) ==
  IF fieldsOf(src, alterOf(c)) = {} THEN 0
  ELSE intOf(CHOOSE x \in fieldsOf(src, alterOf(c)) : TRUE)

\* the block is a step field followed by an alter field, the order of the
\* MusicXML schema
stepThenAlter(src, c) ==
  /\ Len(src) = 8
  /\ src[2] = OpenTag(stepOf(c)) /\ src[4] = CloseTag(stepOf(c))
  /\ src[5] = OpenTag(alterOf(c)) /\ src[7] = CloseTag(alterOf(c))

\* C8: when a root (bass) container of the source has an alter element and the
\* joint transposition of its step and alter has alteration zero, that
\* container's alter element is absent from the output, for any number of
\* harmony elements and every position of the harmony in the document.
C8_AlterRemoved ==
  phase = "resolved" =>
    \A c \in Containers : \A k \in 1..blockCount(xmlData, c) :
      LET src == blockOf(xmlData, c, k)
      IN (/\ stepThenAlter(src, c)
          /\ spelledAlter(sourceStep(src, c), sourceAlter(src, c), semitones) = 0)
           => fieldCount(blockOf(output, c, k), alterOf(c)) = 0

\* C9: after a rewrite completes, every root/bass block of the output holds at
\* most one alter sub-element, present exactly when the block's transposed
\* alteration is non-zero and then carrying that value, for every input whose
\* root/bass blocks have at most one alter element, whatever the order of the
\* step and alter fields.
C9_AlterConsistent ==
  (/\ phase = "resolved"
   /\ \A c \in Containers : \A k \in 1..blockCount(xmlData, c) :
        fieldCount(blockOf(xmlData, c, k), alterOf(c)) <= 1) =>
    \A c \in Containers : \A k \in 1..blockCount(xmlData, c) :
      LET src == blockOf(xmlData, c, k)
          out == blockOf(output, c, k)
      IN fieldCount(src, stepOf(c)) = 1 =>
           LET a == spelledAlter(sourceStep(src, c), sourceAlter(src, c), semitones)
           IN /\ fieldCount(out, alterOf(c)) <= 1
              /\ (fieldCount(out, alterOf(c)) = 1) <=> (a # 0)
              /\ (a # 0) => fieldsOf(out, alterOf(c)) = {ToString(a)}


\* =====================================================================
\* SpecText: documents of unrecognized elements and text through the rewriter
\* =====================================================================
\* the text documents hold at most MaxTextEvents atoms
MaxTextEvents == 9

plainChildren(parent) ==
  CASE parent = "" -> {"a"}
    [] parent = "a" -> {"a", "b"}
    [] OTHER -> {}

\* a text node: a line break and indentation, or a word
plainTexts == {<<"\n", " ">>, <<"x">>}

\* the last atom read is a tag: the parser delivers the text between two tags
\* as one text event
afterTag == pos > 0 /\ (IsOpenTag(xmlData[pos]) \/ IsCloseTag(xmlData[pos]))

InitText == InitRewrite(-MaxShift..MaxShift)

NextText ==
  \/ \E name \in plainChildren(top) :
       Len(xmlData) + Len(elementStack) + 2 <= MaxTextEvents /\ GenOpen(name)
  \/ \E t \in plainTexts :
       /\ afterTag
       /\ Len(xmlData) + Len(elementStack) + Len(t) <= MaxTextEvents
       /\ GenText(t)
  \/ GenClose
  \/ End

SpecText == InitText /\ [][NextText]_vars

\* C6: the rewriter reproduces every text node that is not a captured musical
\* field in its original position and unchanged, also a text node followed by
\* a child element's opening tag; with no recognized musical element the
\* output equals the input.
C6_TextPreserved ==
  /\ output \o textContent = SubSeq(xmlData, 1, pos)
  /\ phase = "resolved" => output = xmlData


\* =====================================================================
\* SpecTwice: a rewrite, then the zero-semitone rewrite of its output
\* =====================================================================
\* the documents of the first rewrite hold at most MaxTwiceEvents atoms
MaxTwiceEvents == 17

twiceChildren(parent) ==
  CASE parent = "" -> {"measure"}
    [] parent = "measure" -> {"harmony", "note"}
    [] parent = "harmony" -> {"root", "bass"}
    [] parent = "root" -> {"root-step", "root-alter"}
    [] parent = "bass" -> {"bass-step", "bass-alter"}
    [] parent = "note" -> {"pitch"}
    [] parent = "pitch" -> {"step", "alter"}
    [] OTHER -> {}

twiceTexts(parent) ==
  CASE parent \in {"root-step", "bass-step", "step"} -> {<<"C">>, <<"E">>}
    [] parent \in {"root-alter", "bass-alter", "alter"} -> {<<"1">>, <<"-1">>}
    [] OTHER -> {}

secondPass == firstOutput # <<>>

InitTwice == InitRewrite(-MaxShift..MaxShift)

\* the caller passes the resolved output to _transposeXMLWithSAX(output, 0):
\* a fresh call, with its own scratch state
Rerun ==
  /\ phase = "resolved" /\ ~secondPass
  /\ firstOutput' = output
  /\ xmlData' = output
  /\ pos' = 0
  /\ semitones' = 0
  /\ phase' = "parsing"
  /\ output' = <<>>
  /\ elementStack' = <<>>
  /\ currentElement' = null
  /\ textContent' = <<>>
  /\ insideHarmony' = FALSE
  /\ insideKey' = FALSE
  /\ insidePitch' = FALSE
  /\ insideAccidental' = FALSE
  /\ noteData' = emptyNoteData
  /\ harmonyData' = emptyHarmonyData
  /\ pitchBuffer' = <<>>
  /\ UNCHANGED callVars

NextTwice ==
  \/ \E name \in allowed(twiceChildren(top)) :
       /\ ~secondPass
       /\ Len(xmlData) + Len(elementStack) + 2
            + (IF twiceTexts(name) # {} THEN 1 ELSE 0) <= MaxTwiceEvents
       /\ GenOpen(name)
  \/ \E t \in twiceTexts(top) : ~secondPass /\ justOpened /\ GenText(t)
  \/ ~secondPass /\ (twiceTexts(top) # {} => ~justOpened) /\ GenClose
  \/ End
  \/ Rerun
  \/ Feed

SpecTwice == InitTwice /\ [][NextTwice]_vars

\* the alter sub-element of a root, bass or pitch block
alterField(c) == IF c = "pitch" THEN "alter" ELSE alterOf(c)

\* C10: running the zero-semitone rewrite on the output of a rewrite adds no
\* alter sub-element to any root, bass or pitch block: each block holds as
\* many alter elements after the second pass as before it.
C10_ZeroRewriteIdempotent ==
  (secondPass /\ phase = "resolved") =>
    \A c \in {"root", "bass", "pitch"} :
      /\ blockCount(output, c) = blockCount(firstOutput, c)
      /\ \A k \in 1..blockCount(firstOutput, c) :
           fieldCount(blockOf(output, c, k), alterField(c))
             = fieldCount(blockOf(firstOutput, c, k), alterField(c))


\* =====================================================================
\* SpecParse: calls of MusicTransposer.parseInterval
\* =====================================================================
\* interval strings are sequences of one-character strings
Digits == <<"0", "1", "2", "3", "4", "5", "6", "7", "8", "9">>
IsDigit(c) == \E d \in 1..Len(Digits) : Digits[d] = c
digitValue(c) == (CHOOSE d \in 1..Len(Digits) : Digits[d] = c) - 1

\* parseInt of a string of decimal digits
RECURSIVE parseDigits(_)
parseDigits(ds) ==
  IF ds = <<>> THEN 0
  ELSE 10 * parseDigits(SubSeq(ds, 1, Len(ds) - 1)) + digitValue(ds[Len(ds)])

\* interval.match(/^([+-]?)(\d+)$/): the two groups, or null (Undefined)
intervalMatch(interval) ==
  LET signed == interval # <<>> /\ interval[1] \in {"+", "-"}
      group1 == IF signed THEN <<interval[1]>> ELSE <<>>
      group2 == IF signed THEN Tail(interval) ELSE interval
  IN IF group2 # <<>> /\ \A i \in 1..Len(group2) : IsDigit(group2[i])
       THEN Some(<<group1, group2>>)
       ELSE Undefined

\* a variant that drops the sign
parseInterval_unsigned(interval) ==
  LET match == intervalMatch(interval)
  IN IF match = Undefined
       THEN [threw |-> TRUE, value |-> 0]
       ELSE [threw |-> FALSE, value |-> parseDigits(match[1][2])]

\* MusicTransposer.parseInterval(interval): the number returned, or the throw
parseInterval(interval) ==
  LET match == intervalMatch(interval)
  IN IF match = Undefined
       THEN [threw |-> TRUE, value |-> 0]
       ELSE LET sign == IF match[1][1] = <<"-">> THEN -1 ELSE 1
                n == parseDigits(match[1][2])
            IN [threw |-> FALSE, value |-> sign * n]

\* interval strings hold at most MaxIntervalLen characters
MaxIntervalLen == 3
IntervalChars == {"+", "-", "0", "1", "7", "x"}
IntervalStrings ==
  UNION {[1..n -> IntervalChars] : n \in 0..MaxIntervalLen}

InitParse ==
  /\ call \in [interval : IntervalStrings]
  /\ ret = Undefined
  /\ idle

ParseInterval ==
  /\ phase = "idle" /\ ret = Undefined
  /\ ret' = Some(parseInterval(call.interval))
  /\ UNCHANGED <<call, xmlData, pos, semitones, phase, rewriterVars, firstOutput,
                 driverVars>>

NextParse == ParseInterval

SpecParse == InitParse /\ [][NextParse]_vars

\* a string of the pattern ^[+-]?\d+$: an optional sign, then one digit or more
MatchesPattern(s) ==
  \E k \in {0, 1} :
    /\ Len(s) > k
    /\ k = 1 => s[1] \in {"+", "-"}
    /\ \A i \in (k + 1)..Len(s) : s[i] \in {Digits[d] : d \in 1..Len(Digits)}

\* the decimal magnitude of the digits of s
RECURSIVE Pow10(_)
Pow10(n) == IF n = 0 THEN 1 ELSE 10 * Pow10(n - 1)
Magnitude(s) ==
  LET ds == SelectSeq(s, IsDigit)
      term[i \in 0..Len(ds)] ==
        IF i = 0 THEN 0 ELSE term[i - 1] + digitValue(ds[i]) * Pow10(Len(ds) - i)
  IN term[Len(ds)]

\* C14: parseInterval accepts exactly the strings matching ^[+-]?\d+$ and
\* throws on every other string; an accepted string yields its decimal
\* magnitude, negated exactly when the sign is "-"; "+5" is 5, "-3" is -3 and
\* "7" is 7.
C14_ParseInterval ==
  ret # Undefined =>
    /\ ret[1].threw <=> ~MatchesPattern(call.interval)
    /\ MatchesPattern(call.interval) =>
         ret[1].value = IF call.interval[1] = "-"
                          THEN 0 - Magnitude(call.interval)
                          ELSE Magnitude(call.interval)
    /\ parseInterval(<<"+", "5">>) = [threw |-> FALSE, value |-> 5]
    /\ parseInterval(<<"-", "3">>) = [threw |-> FALSE, value |-> -3]
    /\ parseInterval(<<"7">>) = [threw |-> FALSE, value |-> 7]

\* a signed two-digit interval below zero has been parsed
C14_Witness ==
  /\ ret # Undefined /\ ~ret[1].threw
  /\ Len(call.interval) = 3 /\ call.interval[1] = "-"
  /\ ret[1].value = -17


\* =====================================================================
\* SpecKeyName: calls of SAXMusicXMLParser._fifthsToKeyName
\* =====================================================================
\* A tonic is a sequence of characters: the letter, then "#" for the sharp
\* sign or "b" for the flat sign of the source's tables.
majorKeysByFifths ==
  [f \in -7..7 |->
     CASE f = 0 -> <<"C">> [] f = 1 -> <<"G">> [] f = 2 -> <<"D">>
       [] f = 3 -> <<"A">> [] f = 4 -> <<"E">> [] f = 5 -> <<"B">>
       [] f = 6 -> <<"F", "#">> [] f = 7 -> <<"C", "#">>
       [] f = -1 -> <<"F">> [] f = -2 -> <<"B", "b">> [] f = -3 -> <<"E", "b">>
       [] f = -4 -> <<"A", "b">> [] f = -5 -> <<"D", "b">>
       [] f = -6 -> <<"G", "b">> [] f = -7 -> <<"C", "b">>]

minorKeysByFifths ==
  [f \in -7..7 |->
     CASE f = 0 -> <<"A">> [] f = 1 -> <<"E">> [] f = 2 -> <<"B">>
       [] f = 3 -> <<"F", "#">> [] f = 4 -> <<"C", "#">> [] f = 5 -> <<"G", "#">>
       [] f = 6 -> <<"D", "#">> [] f = 7 -> <<"A", "#">>
       [] f = -1 -> <<"D">> [] f = -2 -> <<"G">> [] f = -3 -> <<"C">>
       [] f = -4 -> <<"F">> [] f = -5 -> <<"B", "b">>
       [] f = -6 -> <<"E", "b">> [] f = -7 -> <<"A", "b">>]

\* the mode strings of the model, and String.prototype.toLowerCase on them
ModeStrings == {"major", "minor", "Minor", "MINOR", "dorian", ""}
toLowerCase(mode) ==
  CASE mode \in {"Minor", "MINOR"} -> "minor"
    [] OTHER -> mode

Min(a, b) == IF a < b THEN a ELSE b
Max(a, b) == IF a > b THEN a ELSE b

\* a variant that does not clamp: a value outside the tables falls to 'C'
_fifthsToKeyName_noClamp(fifths, mode) ==
  LET keys == IF toLowerCase(mode) = "minor"
                THEN minorKeysByFifths ELSE majorKeysByFifths
      keyName == IF fifths \in DOMAIN keys THEN keys[fifths] ELSE <<"C">>
      suffix == IF toLowerCase(mode) = "minor" THEN " minor" ELSE " major"
  IN Append(keyName, suffix)

\* _fifthsToKeyName(fifths, mode): keyName + suffix
_fifthsToKeyName(fifths, mode) ==
  LET clampedFifths == Max(-7, Min(7, fifths))
      keys == IF toLowerCase(mode) = "minor"
                THEN minorKeysByFifths ELSE majorKeysByFifths
      keyName == IF clampedFifths \in DOMAIN keys
                   THEN keys[clampedFifths] ELSE <<"C">>
      suffix == IF toLowerCase(mode) = "minor" THEN " minor" ELSE " major"
  IN Append(keyName, suffix)

\* the fifths given to _fifthsToKeyName range over -MaxNameFifths..MaxNameFifths
MaxNameFifths == 12

InitKeyName ==
  /\ call \in [fifths : -MaxNameFifths..MaxNameFifths, mode : ModeStrings]
  /\ ret = Undefined
  /\ idle

FifthsToKeyName ==
  /\ phase = "idle" /\ ret = Undefined
  /\ ret' = Some(_fifthsToKeyName(call.fifths, call.mode))
  /\ UNCHANGED <<call, xmlData, pos, semitones, phase, rewriterVars, firstOutput,
                 driverVars>>

NextKeyName == FifthsToKeyName

SpecKeyName == InitKeyName /\ [][NextKeyName]_vars

\* the tonic of a label and its pitch class
tonicOf(label) == SubSeq(label, 1, Len(label) - 1)
tonicPitchClass(tonic) ==
  (naturalValue(tonic[1])
     + (IF Len(tonic) = 1 THEN 0 ELSE IF tonic[2] = "#" THEN 1 ELSE -1)) % 12
IsMinor(mode) == mode \in {"minor", "Minor", "MINOR"}

\* C20: _fifthsToKeyName is total: it clamps fifths into [-7, 7] and returns
\* the tonic followed by " minor" when the mode is 'minor' in any letter case
\* and by " major" otherwise; the major tonic has pitch class 7 * fifths mod 12
\* and the minor tonic (7 * fifths + 9) mod 12; no tonic for fifths >= 0 is
\* spelled with a flat and none for fifths < 0 with a sharp.
C20_FifthsToKeyName ==
  ret # Undefined =>
    LET f == IF call.fifths > 7 THEN 7
             ELSE IF call.fifths < -7 THEN -7 ELSE call.fifths
        tonic == tonicOf(ret[1])
    IN /\ Len(ret[1]) \in {2, 3}
       /\ tonic[1] \in StepLetters
       /\ Len(tonic) = 2 => tonic[2] \in {"#", "b"}
       /\ ret[1][Len(ret[1])] =
            (IF IsMinor(call.mode) THEN " minor" ELSE " major")
       /\ tonicPitchClass(tonic) =
            (IF IsMinor(call.mode) THEN 7 * f + 9 ELSE 7 * f) % 12
       /\ f >= 0 => (Len(tonic) = 1 \/ tonic[2] # "b")
       /\ f < 0 => (Len(tonic) = 1 \/ tonic[2] # "#")

\* a key signature beyond seven flats in an upper-case minor mode has been
\* named: A flat minor
C20_Witness ==
  /\ ret # Undefined
  /\ call.fifths < -7 /\ call.mode = "MINOR"
  /\ ret[1] = <<"A", "b", " minor">>


\* =====================================================================
\* The entry points transposeByInterval and transposeToAllKeys
\* =====================================================================
\* atoms of a document's preamble; every atom that holds a ">" ends with it
XmlDecl == "<?xml version=\"1.0\"?>"
DoctypeWhole == "<!DOCTYPE score-partwise>"
\* a DOCTYPE with an internal subset, in three atoms
DoctypeOpen == "<!DOCTYPE score-partwise ["
EntityDecl == "<!ENTITY x \"y\">"
DoctypeClose == "]>"

EndsWithGt(a) ==
  IsOpenTag(a) \/ IsCloseTag(a)
    \/ a \in {XmlDecl, DoctypeWhole, EntityDecl, DoctypeClose}
StartsDoctype(a) == a \in {DoctypeWhole, DoctypeOpen}

RECURSIVE leadingWhitespace(_)
leadingWhitespace(s) ==
  IF s # <<>> /\ Head(s) \in Whitespace
    THEN <<Head(s)>> \o leadingWhitespace(Tail(s)) ELSE <<>>

\* xmlData.match(/^<\?xml[^>]*\?>\s*/): the matched text, or null
xmlDeclarationMatch(x) ==
  IF x # <<>> /\ x[1] = XmlDecl
    THEN Some(<<XmlDecl>> \o leadingWhitespace(Tail(x)))
    ELSE Undefined

\* xmlData.match(/<!DOCTYPE[^>]*>/): from the first "<!DOCTYPE" through the
\* first ">" after it
doctypeMatch(x) ==
  LET starts == {i \in 1..Len(x) : StartsDoctype(x[i])}
  IN IF starts = {} THEN Undefined
     ELSE LET i == CHOOSE m \in starts : \A n \in starts : m <= n
              ends == {j \in i..Len(x) : EndsWithGt(x[j])}
          IN IF ends = {} THEN Undefined
             ELSE Some(SubSeq(x, i, CHOOSE m \in ends : \A n \in ends : m <= n))

\* x.replace(m, ""): x without the first occurrence of the text m
replaceFirst(x, m) ==
  LET at == {i \in 1..(Len(x) - Len(m) + 1) : SubSeq(x, i, i + Len(m) - 1) = m}
  IN IF m = <<>> \/ at = {} THEN x
     ELSE LET i == CHOOSE a \in at : \A b \in at : a <= b
          IN SubSeq(x, 1, i - 1) \o SubSeq(x, i + Len(m), Len(x))

\* the preamble put before every output
headerOutput(x) ==
  (IF xmlDeclarationMatch(x) = Undefined THEN <<>> ELSE xmlDeclarationMatch(x)[1])
    \o (IF doctypeMatch(x) = Undefined THEN <<>>
        ELSE doctypeMatch(x)[1] \o <<"\n">>)

\* the text given to the event pass
cleanXmlData(x) ==
  LET noDecl == IF xmlDeclarationMatch(x) = Undefined THEN x
                ELSE replaceFirst(x, xmlDeclarationMatch(x)[1])
      noDoctype == IF doctypeMatch(x) = Undefined THEN noDecl
                   ELSE replaceFirst(noDecl, doctypeMatch(x)[1])
  IN trim(noDoctype)


\* the first position of the atom a in x at or after position from, or 0
firstAt(x, a, from) ==
  LET at == {i \in from..Len(x) : x[i] = a}
  IN IF at = {} THEN 0 ELSE CHOOSE i \in at : \A j \in at : i <= j


\* content.match(/<name>([^<]+)<\/name>/): the text of the first name element
\* of content that holds character data only, or null
fieldMatch(content, name) ==
  LET hits == {i \in 1..Len(content) :
                 /\ content[i] = OpenTag(name)
                 /\ \E e \in (i + 2)..Len(content) :
                      /\ content[e] = CloseTag(name)
                      /\ \A k \in (i + 1)..(e - 1) : ~EndsWithGt(content[k])}
  IN IF hits = {} THEN Undefined
     ELSE LET i == CHOOSE a \in hits : \A b \in hits : a <= b
              e == firstAt(content, CloseTag(name), i + 2)
          IN Some(SubSeq(content, i + 1, e - 1))

\* an _extractOriginalKeySignature whose default mode is minor
_extractOriginalKeySignature_minorDefault(x) ==
  LET open == firstAt(x, OpenTag("key"), 1)
      close == IF open = 0 THEN 0 ELSE firstAt(x, CloseTag("key"), open + 1)
  IN IF open = 0 \/ close = 0
       THEN [fifths |-> Some(0), mode |-> "minor"]
       ELSE LET keyContent == SubSeq(x, open + 1, close - 1)
                fifthsMatch == fieldMatch(keyContent, "fifths")
                modeMatch == fieldMatch(keyContent, "mode")
            IN [fifths |-> IF fifthsMatch = Undefined THEN Some(0)
                           ELSE parseInt(str(trim(fifthsMatch[1]))),
                mode |-> IF modeMatch = Undefined THEN "minor"
                         ELSE str(modeMatch[1])]

\* _extractOriginalKeySignature(xmlData): fifths is Undefined when parseInt
\* yields NaN
_extractOriginalKeySignature(x) ==
  LET open == firstAt(x, OpenTag("key"), 1)
      close == IF open = 0 THEN 0 ELSE firstAt(x, CloseTag("key"), open + 1)
  IN IF open = 0 \/ close = 0
       THEN [fifths |-> Some(0), mode |-> "major"]
       ELSE LET keyContent == SubSeq(x, open + 1, close - 1)
                fifthsMatch == fieldMatch(keyContent, "fifths")
                modeMatch == fieldMatch(keyContent, "mode")
            IN [fifths |-> IF fifthsMatch = Undefined THEN Some(0)
                           ELSE parseInt(str(trim(fifthsMatch[1]))),
                mode |-> IF modeMatch = Undefined THEN "major"
                         ELSE str(modeMatch[1])]

\* _calculateTransposedKeyName(originalKey, semitones), the transposer set
_calculateTransposedKeyName(originalKey, s) ==
  LET keyElement ==
        [fifths |-> Some(IF originalKey.fifths = Undefined THEN "NaN"
                         ELSE ToString(originalKey.fifths[1]))]
      transposedKey == transposeKeySignature(keyElement, s)
      transposedFifths == parseInt(transposedKey.fifths[1])
  IN IF transposedFifths = Undefined
       THEN Append(<<"C">>,
                   IF toLowerCase(originalKey.mode) = "minor"
                     THEN " minor" ELSE " major")
       ELSE _fifthsToKeyName(transposedFifths[1], originalKey.mode)

chromaticOrder == <<0, 1, 2, 3, 4, 5, 6, 7, 8, 9, 10, 11>>
fourthsOrder == <<0, 5, 10, 3, 8, 1, 6, 11, 4, 9, 2, 7>>
\* a variant with two neighbours of the fourths order exchanged
keySequence_swapped(keyOrder) ==
  IF keyOrder = "fourths"
    THEN <<0, 5, 3, 10, 8, 1, 6, 11, 4, 9, 2, 7>> ELSE chromaticOrder
keySequence(keyOrder) ==
  IF keyOrder = "fourths" THEN fourthsOrder ELSE chromaticOrder


\* ------------------------------------------------ the inputs of the model
Preambles ==
  {<<>>,
   <<XmlDecl, "\n">>,
   <<DoctypeWhole, "\n">>,
   <<XmlDecl, DoctypeWhole>>,
   <<XmlDecl, "\n", DoctypeWhole, "\n">>,
   <<XmlDecl, "\n", DoctypeOpen, EntityDecl, DoctypeClose, "\n">>}

\* a document whose root is a key signature, with or without a mode element
keyBody(fifths, mode) ==
  <<OpenTag("key"), OpenTag("fifths"), ToString(fifths), CloseTag("fifths")>>
    \o (IF mode = "" THEN <<>>
        ELSE <<OpenTag("mode"), mode, CloseTag("mode")>>)
    \o <<CloseTag("key")>>

\* a document with no musical element, and one whose last closing tag does
\* not match
plainBody == <<OpenTag("a"), "x", CloseTag("a")>>
malformedBody ==
  <<OpenTag("key"), OpenTag("fifths"), "0", CloseTag("fifths"),
    CloseTag("measure")>>

\* documents with a chord symbol, with a note, and with an element left open
\* by the closing tag of its parent
harmonyBody ==
  <<OpenTag("harmony"), OpenTag("root"), OpenTag("root-step"), "C",
    CloseTag("root-step"), CloseTag("root"), CloseTag("harmony")>>
noteBody ==
  <<OpenTag("note"), OpenTag("pitch"), OpenTag("step"), "C", CloseTag("step"),
    OpenTag("octave"), "4", CloseTag("octave"), CloseTag("pitch"),
    CloseTag("note")>>
unclosedBody == <<OpenTag("a"), OpenTag("b"), "x", CloseTag("a")>>
\* a key signature that states a mode and no fifths
modeOnlyBody ==
  <<OpenTag("key"), OpenTag("mode"), "minor", CloseTag("mode"), CloseTag("key")>>

Bodies ==
  {keyBody(f, m) : f \in -7..7, m \in {"", "major", "minor"}}
    \cup {plainBody, malformedBody, harmonyBody, noteBody, unclosedBody,
          modeOnlyBody}

Documents == {p \o b : p \in Preambles, b \in Bodies}

EntryIntervals == {<<"+", "1">>, <<"-", "1">>, <<"7">>, <<"x">>, <<>>}

\* a call of transposeToAllKeys(xmlData, keyOrder), of
\* transposeByInterval(xmlData, interval) or of transposeFile on a file that
\* holds xmlData, the transposer set
InitEntry ==
  /\ \/ call \in [op : {"transposeToAllKeys"}, xmlData : Documents,
                  keyOrder : {"chromatic", "fourths", "random"},
                  interval : {<<>>}]
     \/ call \in [op : {"transposeByInterval", "transposeFile"},
                  xmlData : Documents,
                  keyOrder : {"chromatic"}, interval : EntryIntervals]
  /\ ret = Undefined
  /\ idle

\* new SaxesParser() and the fresh locals of _transposeXMLWithSAX
StartPass(x, s) ==
  /\ xmlData' = x
  /\ pos' = 0
  /\ semitones' = s
  /\ phase' = "parsing"
  /\ output' = <<>>
  /\ elementStack' = <<>>
  /\ currentElement' = null
  /\ textContent' = <<>>
  /\ insideHarmony' = FALSE
  /\ insideKey' = FALSE
  /\ insidePitch' = FALSE
  /\ insideAccidental' = FALSE
  /\ noteData' = emptyNoteData
  /\ harmonyData' = emptyHarmonyData
  /\ pitchBuffer' = <<>>

\* a loop whose turns rewrite the output of the turn before
StartKey_chained ==
  /\ call.op = "transposeToAllKeys" /\ ret = Undefined
  /\ phase = "idle" /\ keyIndex < Len(keySequence(call.keyOrder))
  /\ StartPass(IF keyIndex = 0 THEN cleanXmlData(call.xmlData) ELSE output,
               keySequence(call.keyOrder)[keyIndex + 1])
  /\ UNCHANGED <<call, ret, firstOutput, driverVars>>

\* one turn of the loop up to its await: the rewrite for keySequence[keyIndex]
StartKey ==
  /\ call.op = "transposeToAllKeys" /\ ret = Undefined
  /\ phase = "idle" /\ keyIndex < Len(keySequence(call.keyOrder))
  /\ StartPass(cleanXmlData(call.xmlData),
               keySequence(call.keyOrder)[keyIndex + 1])
  /\ UNCHANGED <<call, ret, firstOutput, driverVars>>

\* the rest of the turn: results.push({key, semitones, xml}), keyIndex++
PushKey ==
  /\ call.op = "transposeToAllKeys" /\ ret = Undefined
  /\ phase = "resolved"
  /\ results' =
       Append(results,
              [key |-> _calculateTransposedKeyName(
                         _extractOriginalKeySignature(call.xmlData), semitones),
               semitones |-> semitones,
               xml |-> headerOutput(call.xmlData) \o output])
  /\ keyIndex' = keyIndex + 1
  /\ phase' = "idle"
  /\ UNCHANGED <<call, ret, xmlData, pos, semitones, rewriterVars, firstOutput,
                 outputFile, combined, closures, playback>>

\* a variant that returns the entries pushed so far when a rewrite was rejected
ReturnAll_partial ==
  /\ call.op = "transposeToAllKeys" /\ ret = Undefined
  /\ \/ phase = "idle" /\ keyIndex = Len(keySequence(call.keyOrder))
     \/ phase = "rejected"
  /\ ret' = Some([threw |-> FALSE, value |-> results])
  /\ UNCHANGED <<call, xmlData, pos, semitones, phase, rewriterVars, firstOutput,
                 driverVars>>

\* return results
ReturnAll ==
  /\ call.op = "transposeToAllKeys" /\ ret = Undefined
  /\ phase = "idle" /\ keyIndex = Len(keySequence(call.keyOrder))
  /\ ret' = Some([threw |-> FALSE, value |-> results])
  /\ UNCHANGED <<call, xmlData, pos, semitones, phase, rewriterVars, firstOutput,
                 driverVars>>

\* transposeByInterval up to its await: parseInterval throws, or the rewrite
\* starts
StartInterval ==
  /\ call.op = "transposeByInterval" /\ ret = Undefined
  /\ phase = "idle"
  /\ LET parsed == parseInterval(call.interval)
     IN IF parsed.threw
          THEN /\ ret' = Some([threw |-> TRUE, value |-> <<>>])
               /\ UNCHANGED <<xmlData, pos, semitones, phase, rewriterVars>>
          ELSE /\ StartPass(cleanXmlData(call.xmlData), parsed.value)
               /\ ret' = ret
  /\ UNCHANGED <<call, firstOutput, driverVars>>

\* output += transposedXML; return output
ReturnInterval ==
  /\ call.op = "transposeByInterval" /\ ret = Undefined
  /\ phase = "resolved"
  /\ ret' = Some([threw |-> FALSE,
                  value |-> headerOutput(call.xmlData) \o output])
  /\ UNCHANGED <<call, xmlData, pos, semitones, phase, rewriterVars, firstOutput,
                 driverVars>>

\* the catch clause of either entry point: the awaited rewrite was rejected
Catch ==
  /\ call.op \in {"transposeToAllKeys", "transposeByInterval"}
  /\ ret = Undefined /\ phase = "rejected"
  /\ ret' = Some([threw |-> TRUE, value |-> <<>>])
  /\ UNCHANGED <<call, xmlData, pos, semitones, phase, rewriterVars, firstOutput,
                 driverVars>>



\* transposeToAllKeys has returned its list
allKeysReturned ==
  /\ call.op = "transposeToAllKeys"
  /\ ret # Undefined /\ ~ret[1].threw
returnedSemitones == [i \in 1..Len(ret[1].value) |-> ret[1].value[i].semitones]

\* C11: transposeToAllKeys returns exactly 12 entries whose semitones, in list
\* order, are 0,1,...,11 for chromatic and for every keyOrder other than
\* 'fourths', and 0,5,10,3,8,1,6,11,4,9,2,7 for 'fourths'; in the fourths
\* order each element is the previous one plus 5 modulo 12 and the element at
\* index 2 is 10; in both orders every value 0..11 appears exactly once.
C11_KeyOrder ==
  allKeysReturned =>
    LET sems == returnedSemitones
    IN /\ Len(sems) = 12
       /\ call.keyOrder = "fourths" =>
            /\ sems = <<0, 5, 10, 3, 8, 1, 6, 11, 4, 9, 2, 7>>
            /\ \A i \in 2..12 : sems[i] = (sems[i - 1] + 5) % 12
            /\ sems[3] = 10
       /\ call.keyOrder # "fourths" => sems = [i \in 1..12 |-> i - 1]
       /\ \A n \in 0..11 : Cardinality({i \in 1..12 : sems[i] = n}) = 1

\* the list was returned for the circle of fourths
C11_Witness ==
  /\ allKeysReturned /\ call.keyOrder = "fourths"
  /\ Len(ret[1].value) = 12 /\ ret[1].value[3].semitones = 10

\* C13: transposeToAllKeys is all-or-nothing: once the rewrite for a key has
\* failed no rewrite for a later key is started and nothing more is pushed;
\* the caller receives either one failure carrying no entries or, when no
\* rewrite failed, all 12 entries.
C13_AllOrNothing ==
  /\ [](call.op = "transposeToAllKeys" /\ ret # Undefined =>
          \/ ret[1].threw /\ ret[1].value = <<>> /\ phase = "rejected"
          \/ ~ret[1].threw /\ Len(ret[1].value) = 12 /\ phase # "rejected")
  /\ [][(call.op = "transposeToAllKeys" /\ phase = "rejected") =>
          /\ phase' = "rejected"
          /\ pos' = pos /\ keyIndex' = keyIndex /\ results' = results
          /\ ret' # Undefined => ret'[1].threw]_vars

\* the rewrite for the first key was rejected and the caller has the failure;
\* the other eleven keys were never started
C13_Witness ==
  /\ call.op = "transposeToAllKeys"
  /\ ret # Undefined /\ ret[1].threw
  /\ phase = "rejected" /\ keyIndex = 0 /\ semitones = 0
  /\ results = <<>>


\* the number written in the fifths element of a document, and the mode the
\* source document states (major when it states none)
writtenFifths(doc) ==
  intOf(doc[firstAt(doc, OpenTag("fifths"), 1) + 1])
sourceMode(doc) ==
  IF firstAt(doc, OpenTag("mode"), 1) = 0 THEN "major"
  ELSE doc[firstAt(doc, OpenTag("mode"), 1) + 1]

\* C12: in the result of transposeToAllKeys the label of the entry for
\* semitones s names the key whose fifths value is the one written into the
\* fifths element of that entry's document, for every original fifths in
\* [-7, 7], every mode and every s in 0..11.
C12_LabelMatchesDocument ==
  call.op = "transposeToAllKeys" =>
    \A i \in 1..Len(results) :
      firstAt(results[i].xml, OpenTag("fifths"), 1) # 0 =>
        results[i].key =
          _fifthsToKeyName(writtenFifths(results[i].xml),
                           sourceMode(call.xmlData))


\* the atoms of a declaration or a DOCTYPE
PreambleAtoms == {XmlDecl, DoctypeWhole, DoctypeOpen, EntityDecl, DoctypeClose}
\* the declaration and DOCTYPE at the start of a text, with the whitespace
\* around them: its longest prefix of preamble atoms and whitespace
RECURSIVE preambleOf(_)
preambleOf(x) ==
  IF x # <<>> /\ Head(x) \in PreambleAtoms \cup Whitespace
    THEN <<Head(x)>> \o preambleOf(Tail(x)) ELSE <<>>
bodyOf(x) == SubSeq(x, Len(preambleOf(x)) + 1, Len(x))
IsPreambleAtom(a) == a \in PreambleAtoms
\* a text without its whitespace
significant(x) == SelectSeq(x, LAMBDA a : a \notin Whitespace)

\* the document out begins with the declaration and DOCTYPE of the input in,
\* in their order, and nothing of them follows; with neither in the input,
\* out has no preamble at all
prependedVerbatim(in, out) ==
  /\ significant(preambleOf(out)) = significant(preambleOf(in))
  /\ SelectSeq(bodyOf(out), IsPreambleAtom) = <<>>
  /\ bodyOf(out) # <<>> /\ IsOpenTag(bodyOf(out)[1])
  /\ significant(preambleOf(in)) = <<>> => preambleOf(out) = <<>>

\* C17: an XML declaration and a DOCTYPE at the start of the input are removed
\* from the text given to the event pass and are put, verbatim and in their
\* order, before the output of the single-interval rewrite and before each of
\* the 12 documents of transposeToAllKeys; when the input has neither, nothing
\* is put before them.
C17_PreamblePreserved ==
  /\ phase \in {"parsing", "resolved", "rejected"} =>
       xmlData = bodyOf(call.xmlData)
  /\ (call.op = "transposeByInterval" /\ ret # Undefined /\ ~ret[1].threw) =>
       prependedVerbatim(call.xmlData, ret[1].value)
  /\ call.op = "transposeToAllKeys" =>
       \A i \in 1..Len(results) :
         prependedVerbatim(call.xmlData, results[i].xml)


\* =====================================================================
\* transposeFile of sax-musicxml-parser.js: the stream-based rewriter that
\* reads the interval string inside its closetag handler and writes the
\* output file in its end handler
\* =====================================================================
\* the opentag handler (insideNote, keyData and pitchElements are never read
\* and are left out)
fileOpentag(name) ==
  LET inPitch == insidePitch \/ name = "pitch"
      inHarmony == insideHarmony \/ name = "harmony"
      inKey == insideKey \/ name = "key"
  IN /\ elementStack' = Append(elementStack, name)
     /\ insidePitch' = inPitch
     /\ insideHarmony' = inHarmony
     /\ insideKey' = inKey
     /\ noteData' = IF name = "note" THEN emptyNoteData ELSE noteData
     /\ harmonyData' = IF name = "harmony" THEN emptyHarmonyData ELSE harmonyData
     /\ currentElement' =
          IF inPitch /\ name \in {"step", "alter", "octave"} THEN name
          ELSE IF inHarmony /\ name \in {"root-step", "root-alter", "bass-step",
                                        "bass-alter"} THEN name
          ELSE IF inKey /\ name = "fifths" THEN name
          ELSE null
     /\ pitchBuffer' =
          IF inPitch
            THEN (IF name = "pitch" THEN <<>> ELSE pitchBuffer) \o <<OpenTag(name)>>
            ELSE pitchBuffer
     /\ output' = IF inPitch THEN output ELSE Append(output, OpenTag(name))
     /\ textContent' = <<>>
     /\ UNCHANGED insideAccidental

\* the closetag handler reaches a call of parseInterval(interval)
fileReadsInterval(tagName) ==
  IF insidePitch
    THEN tagName = "pitch" /\ noteData.step # Undefined
    ELSE /\ currentElement # null /\ trim(textContent) # <<>>
         /\ \/ /\ insideHarmony /\ currentElement = tagName
               /\ currentElement \in {"root-step", "root-alter", "bass-step",
                                      "bass-alter"}
            \/ /\ ~(insideHarmony /\ currentElement = tagName)
               /\ insideKey /\ currentElement = "fifths"

\* the harmony fields of the closetag handler: the new harmonyData and the
\* text written
fileHarmonyField(hd0, field, originalValue, s) ==
  LET hd == [hd0 EXCEPT ![field] = Some(originalValue)]
      isRoot == field \in {"root-step", "root-alter"}
      stepKey == IF isRoot THEN "root-step" ELSE "bass-step"
      tKey == IF isRoot THEN "_transposedRoot" ELSE "_transposedBass"
      needsKey == IF isRoot THEN "_needsRootAlter" ELSE "_needsBassAlter"
      hasKey == IF isRoot THEN "_hasOriginalRootAlter" ELSE "_hasOriginalBassAlter"
  IN IF field \in {"root-step", "bass-step"}
       THEN LET transposed == transposeNote(originalValue, Some(0), 4, s)
            IN [hd |-> [hd EXCEPT ![tKey] = Some(transposed),
                                  ![needsKey] = transposed.alter # Undefined,
                                  ![hasKey] = FALSE],
                transposedValue |-> transposed.step]
       ELSE LET step == IF hd[stepKey] = Undefined THEN "C" ELSE hd[stepKey][1]
                transposed == transposeNote(step, parseInt(originalValue), 4, s)
            IN [hd |-> [hd EXCEPT ![tKey] = Some(transposed),
                                  ![hasKey] = TRUE,
                                  ![needsKey] = FALSE],
                transposedValue |-> IF transposed.alter # Undefined
                                      THEN transposed.alter[1]
                                      ELSE originalValue]

\* the fifths branch of the closetag handler: plain addition, then the wrap
fileFifths(originalValue, s) ==
  LET currentFifths == parseInt(originalValue)
  IN IF currentFifths = Undefined THEN "NaN"
     ELSE ToString(wrapUp(wrapDown(currentFifths[1] + s)))


\* the closetag handler when no call of parseInterval throws; s is the value
\* parseInterval(interval) returns where the handler reads it.  The flags
\* _updateRootStep and _removeLast*Alter are never set here, so rootClose and
\* bassClose reduce to this file's insertion of a missing alter element.
fileClosetag(tagName, s) ==
  LET trimmed == trim(textContent)
      originalValue == str(trimmed)
      capture == currentElement # null /\ trimmed # <<>>
      nd1 == IF ~(insidePitch /\ capture) THEN noteData
             ELSE IF currentElement = "step"
               THEN [noteData EXCEPT !.step = Some(originalValue)]
             ELSE IF currentElement = "alter"
               THEN [noteData EXCEPT !.alter = parseInt(originalValue)]
             ELSE IF currentElement = "octave"
               THEN [noteData EXCEPT !.octave = parseInt(originalValue)]
             ELSE noteData
      pb1 == pitchBuffer \o (IF capture THEN <<originalValue>> ELSE textContent)
      pb2 == IF tagName # "pitch" THEN pb1 \o <<CloseTag(tagName)>> ELSE pb1
      alter == IF TruthyNum(nd1.alter) THEN nd1.alter ELSE Some(0)
      octave == IF TruthyNum(nd1.octave) THEN nd1.octave[1] ELSE 4
      inHarmonyField == insideHarmony /\ currentElement = tagName
      isHarmonyField ==
        currentElement \in {"root-step", "root-alter", "bass-step", "bass-alter"}
      hf == fileHarmonyField(harmonyData, currentElement, originalValue, s)
      out1 == IF insidePitch
                THEN IF tagName # "pitch" THEN output
                     ELSE IF nd1.step # Undefined
                       THEN output \o
                              transposedPitch(
                                transposeNote(nd1.step[1], alter, octave, s))
                     ELSE output \o pb2
              ELSE IF capture
                THEN output \o
                       <<IF inHarmonyField
                           THEN IF isHarmonyField THEN hf.transposedValue
                                ELSE originalValue
                         ELSE IF insideKey /\ currentElement = "fifths"
                           THEN fileFifths(originalValue, s)
                         ELSE originalValue>>
              ELSE output \o textContent
      hd1 == IF ~insidePitch /\ capture /\ inHarmonyField /\ isHarmonyField
               THEN hf.hd ELSE harmonyData
      inPitch1 == insidePitch /\ tagName # "pitch"
      out2 == IF ~inPitch1 /\ tagName # "pitch"
                THEN out1 \o <<CloseTag(tagName)>> ELSE out1
      out3 == IF insideHarmony /\ tagName = "root" THEN rootClose(out2, hd1)
              ELSE IF insideHarmony /\ tagName = "bass" THEN bassClose(out2, hd1)
              ELSE out2
  IN
  /\ output' = out3
  /\ pitchBuffer' = IF ~insidePitch THEN pitchBuffer
                    ELSE IF tagName = "pitch" THEN <<>> ELSE pb2
  /\ insidePitch' = inPitch1
  /\ noteData' = IF tagName = "note" THEN emptyNoteData ELSE nd1
  /\ insideHarmony' = (insideHarmony /\ tagName # "harmony")
  /\ harmonyData' = IF tagName = "harmony" THEN emptyHarmonyData ELSE hd1
  /\ insideKey' = (insideKey /\ tagName # "key")
  /\ elementStack' = SubSeq(elementStack, 1, Len(elementStack) - 1)
  /\ currentElement' = null
  /\ textContent' = <<>>
  /\ UNCHANGED insideAccidental

\* the promise of transposeFile: pending (Undefined), rejected or resolved
rejected == Some([threw |-> TRUE, value |-> <<>>])
resolved == Some([threw |-> FALSE, value |-> <<>>])
\* reject and resolve settle a pending promise and leave a settled one alone
settle(r) == IF ret = Undefined THEN r ELSE ret

\* transposeFile(filePath, interval, outputPath) up to parser.write: the
\* preamble is put into output and the rest is given to the stream.  The phase
\* of this pass is "streaming", then "ended" (the end event was delivered) or
\* "aborted" (a handler threw out of parser.write).
StartFile ==
  /\ call.op = "transposeFile" /\ ret = Undefined /\ phase = "idle"
  /\ xmlData' = cleanXmlData(call.xmlData)
  /\ pos' = 0
  /\ phase' = "streaming"
  /\ output' = headerOutput(call.xmlData)
  /\ UNCHANGED <<call, ret, semitones, elementStack, currentElement,
                 textContent, insideHarmony, insideKey, insidePitch,
                 insideAccidental, noteData, harmonyData, pitchBuffer,
                 firstOutput, driverVars>>

\* the closetag handler for the open element: it throws out of parser.write
\* when it reads an interval that does not parse, and the catch clause rejects
fileCloseTop(errorEvent) ==
  IF fileReadsInterval(top) /\ parseInterval(call.interval).threw
    THEN /\ phase' = "aborted"
         /\ ret' = settle(rejected)
         /\ UNCHANGED rewriterVars
    ELSE /\ fileClosetag(top, parseInterval(call.interval).value)
         /\ phase' = phase
         /\ ret' = IF errorEvent THEN settle(rejected) ELSE ret

\* the stream handles the next atom of the text.  In strict mode a closing tag
\* that does not match the open element, and character data outside the root,
\* raise the error event (reject) and the stream goes on: an unmatched closing
\* tag becomes character data, and a closing tag of an outer element closes
\* the open elements one after another.
FileFeed ==
  /\ call.op = "transposeFile" /\ phase = "streaming" /\ pos < Len(xmlData)
  /\ LET tok == xmlData[pos + 1]
         inStack(n) == \E i \in 1..Len(elementStack) : elementStack[i] = n
     IN IF IsOpenTag(tok)
          THEN /\ fileOpentag(NameOf(tok))
               /\ UNCHANGED <<ret, phase>> /\ pos' = pos + 1
        ELSE IF IsCloseTag(tok) /\ NameOf(tok) = top
          THEN fileCloseTop(FALSE) /\ pos' = pos + 1
        ELSE IF IsCloseTag(tok) /\ inStack(NameOf(tok))
          THEN fileCloseTop(TRUE) /\ pos' = pos
        ELSE /\ text(<<tok>>)
             /\ ret' = IF IsCloseTag(tok)
                          \/ (elementStack = <<>> /\ tok \notin Whitespace)
                         THEN settle(rejected) ELSE ret
             /\ phase' = phase /\ pos' = pos + 1
  /\ UNCHANGED <<call, xmlData, semitones, firstOutput, driverVars>>

\* parser.end(): an element still open raises the error event; then the end
\* handler writes the output file and calls resolve
FileEnd ==
  /\ call.op = "transposeFile" /\ phase = "streaming" /\ pos = Len(xmlData)
  /\ outputFile' = Some(output)
  /\ ret' = IF elementStack # <<>> THEN settle(rejected) ELSE settle(resolved)
  /\ phase' = "ended"
  /\ UNCHANGED <<call, xmlData, pos, semitones, rewriterVars, firstOutput,
                 keyIndex, results, combined, closures, playback>>

NextEntry ==
  \/ StartKey
  \/ PushKey
  \/ ReturnAll
  \/ StartInterval
  \/ ReturnInterval
  \/ Catch
  \/ Feed
  \/ End
  \/ StartFile
  \/ FileFeed
  \/ FileEnd

SpecEntry == InitEntry /\ [][NextEntry]_vars


\* the interval string of the call fails the pattern
invalidInterval == parseInterval(call.interval).threw

\* C15: in every single-interval entry point an interval string that fails the
\* pattern makes the operation fail before any open, text or close event of
\* the document is processed, for every document including one with no pitch,
\* harmony or key element, and no output is returned or written.
C15_IntervalCheckedFirst ==
  (call.op \in {"transposeByInterval", "transposeFile"} /\ invalidInterval) =>
    /\ pos = 0
    /\ outputFile = Undefined
    /\ ret # Undefined => ret[1].threw

\* C16: when the event source reports an error for a malformed document the
\* operation fails with one parse error and produces no output: no string is
\* returned and no output file is written, also when an end event follows the
\* error event.
C16_ErrorMeansNoOutput ==
  (ret # Undefined /\ ret[1].threw) =>
    /\ ret[1].value = <<>>
    /\ outputFile = Undefined


\* =====================================================================
\* SpecCombined: SAXMusicXMLParser.parseStructure and the transposeToAllKeys
\* that returns one score holding every part in all twelve keys
\* =====================================================================
\* node.attributes.id of a part tag; a tag without one gives undefined
idOf(tag) ==
  IF tag \in PartTags
    THEN CHOOSE v \in PartIds : tag = AttrTag("part", "id", v)
    ELSE "undefined"

\* parser.on('opentag') of parseStructure; tag is the serialized node
psOpentag(name, tag, c) ==
  LET c1 == IF name = "part"
              THEN [c EXCEPT !.insideHeader = FALSE, !.insidePart = TRUE,
                             !.currentPart =
                               Some([id |-> idOf(tag), measures |-> <<>>])]
              ELSE c
  IN IF name # "part" /\ name = "measure" /\ c.insidePart
       THEN [c EXCEPT !.insideMeasure = TRUE, !.currentMeasure = <<tag>>]
     ELSE IF c1.insideHeader THEN [c1 EXCEPT !.header = @ \o <<tag>>]
     ELSE IF c1.insideMeasure THEN [c1 EXCEPT !.currentMeasure = @ \o <<tag>>]
     ELSE c1

\* a text handler that keeps the text of the header only
psText_headerOnly(t, c) ==
  IF c.insideHeader THEN [c EXCEPT !.header = @ \o <<t>>] ELSE c

\* parser.on('text') of parseStructure
psText(t, c) ==
  IF c.insideHeader THEN [c EXCEPT !.header = @ \o <<t>>]
  ELSE IF c.insideMeasure THEN [c EXCEPT !.currentMeasure = @ \o <<t>>]
  ELSE c

\* parser.on('closetag') of parseStructure
psClosetag(tagName, c) ==
  LET c1 == IF tagName = "part"
              THEN [c EXCEPT !.insidePart = FALSE,
                             !.parts = @ \o c.currentPart,
                             !.currentPart = Undefined]
              ELSE c
  IN IF tagName # "part" /\ tagName = "measure" /\ c.insideMeasure
       THEN [c EXCEPT !.insideMeasure = FALSE,
                      !.currentMeasure = <<>>,
                      !.currentPart =
                        Some([c.currentPart[1] EXCEPT !.measures =
                          Append(@, c.currentMeasure \o <<CloseTag(tagName)>>)])]
     ELSE IF c1.insideHeader
       THEN [c1 EXCEPT !.header = @ \o <<CloseTag(tagName)>>]
     ELSE IF c1.insideMeasure
       THEN [c1 EXCEPT !.currentMeasure = @ \o <<CloseTag(tagName)>>]
     ELSE c1

\* ------------------------------------------------------------ updateBarline
BarlineRight == AttrTag("barline", "location", "right")
barlineOf(style) ==
  <<BarlineRight, "<bar-style>", style, "</bar-style>", "</barline>">>
IsBarlineOpen(a) == a = OpenTag("barline") \/ a \in BarlineTags

\* measureXML.replace(/<barline[^>]*>[\s\S]*?<\/barline>/g, r)
RECURSIVE replaceBarlines(_, _)
replaceBarlines(m, r) ==
  IF m = <<>> THEN <<>>
  ELSE LET close == firstAt(m, CloseTag("barline"), 2)
       IN IF IsBarlineOpen(Head(m)) /\ close # 0
            THEN r \o replaceBarlines(SubSeq(m, close + 1, Len(m)), r)
            ELSE <<Head(m)>> \o replaceBarlines(Tail(m), r)

\* measureXML.replace('</measure>', r + '</measure>'): the first occurrence
beforeMeasureClose(m, r) ==
  LET at == firstAt(m, CloseTag("measure"), 1)
  IN IF at = 0 THEN m
     ELSE SubSeq(m, 1, at - 1) \o r \o SubSeq(m, at, Len(m))

updateBarline(measureXML, barlineType) ==
  LET includesBarline == \E i \in 1..Len(measureXML) : IsBarlineOpen(measureXML[i])
      style == IF barlineType = "final" THEN "light-heavy" ELSE "light-light"
  IN IF barlineType \in {"final", "double"}
       THEN IF includesBarline
              THEN replaceBarlines(measureXML, barlineOf(style))
              ELSE beforeMeasureClose(measureXML, barlineOf(style))
       ELSE replaceBarlines(measureXML, <<>>)

\* transposedMeasure.replace(/number="\d+"/, `number="${measureNumber}"`): the
\* first tag that carries a number attribute of digits gets the new number
IsNumbered(a) == \E v \in DigitNumbers : a = AttrTag("measure", "number", v)
renumber(m, measureNumber) ==
  LET at == {i \in 1..Len(m) : IsNumbered(m[i])}
  IN IF at = {} THEN m
     ELSE LET i == CHOOSE a \in at : \A b \in at : a <= b
          IN [m EXCEPT ![i] = AttrTag("measure", "number", ToString(measureNumber))]


\* ------------------------------------------------------------- the inputs
noteOf(step) ==
  <<"<note>", "<pitch>", "<step>", step, "</step>", "<octave>", "4",
    "</octave>", "</pitch>", "</note>">>
\* the barlines of a source measure: none, one at the right, one at the left
\* (the start of a repeat), or both
BarlineKinds == {"none", "right", "left", "both"}
leftBarline ==
  <<AttrTag("barline", "location", "left"), "<bar-style>", "heavy-light",
    "</bar-style>", "</barline>">>
rightBarline ==
  <<"<barline>", "<bar-style>", "light-heavy", "</bar-style>", "</barline>">>
measureOf(number, step, bar) ==
  <<AttrTag("measure", "number", number)>>
    \o (IF bar \in {"left", "both"} THEN leftBarline ELSE <<>>)
    \o noteOf(step)
    \o (IF bar \in {"right", "both"} THEN rightBarline ELSE <<>>)
    \o <<"</measure>">>

\* a part of n measures, each with the barlines bar; with a pickup its first
\* measure is the implicit X1; sep is the text between its measures
RECURSIVE measuresFrom(_, _, _, _, _)
measuresFrom(i, n, pickup, bar, sep) ==
  IF i > n THEN <<>>
  ELSE measureOf(IF pickup THEN (IF i = 1 THEN "X1" ELSE ToString(i - 1))
                 ELSE ToString(i),
                 IF i = 1 THEN "C" ELSE "D",
                 bar)
       \o sep \o measuresFrom(i + 1, n, pickup, bar, sep)
partOf(id, n, pickup, bar, sep) ==
  <<AttrTag("part", "id", id)>> \o sep \o measuresFrom(1, n, pickup, bar, sep)
    \o <<"</part>">>

RECURSIVE partsFrom(_, _, _, _, _, _)
partsFrom(i, np, n, pickup, bar, sep) ==
  IF i > np THEN <<>>
  ELSE partOf("P" \o ToString(i), n, pickup, bar, sep) \o sep
         \o partsFrom(i + 1, np, n, pickup, bar, sep)
\* a document that starts with a declaration also lists its parts
partList ==
  <<OpenTag("part-list"), OpenTag("score-part"), CloseTag("score-part"),
    CloseTag("part-list")>>
scoreOf(pre, np, n, pickup, bar, sep) ==
  pre \o <<"<score-partwise>">> \o sep
    \o (IF pre # <<>> THEN partList \o sep ELSE <<>>)
    \o partsFrom(1, np, n, pickup, bar, sep) \o <<"</score-partwise>">>

CombinedDocuments ==
  {scoreOf(pre, np, n, pickup, bar, sep) :
     pre \in {<<>>, <<XmlDecl, "\n", DoctypeWhole, "\n">>},
     np \in 1..MaxParts, n \in 1..MaxMeasures,
     pickup \in BOOLEAN, bar \in BarlineKinds, sep \in {<<>>, <<"\n">>}}

InitCombined ==
  /\ call \in [op : {"transposeToAllKeys"}, xmlData : CombinedDocuments]
  /\ ret = Undefined
  /\ idle

\* ------------------------------------------------------------- parseStructure
\* transposeToAllKeys up to its first await: the preamble, then parseStructure
\* starts on the cleaned text
StartStructure ==
  /\ phase = "idle" /\ ret = Undefined
  /\ combined' = [emptyCombined EXCEPT !.output = headerOutput(call.xmlData)]
  /\ xmlData' = cleanXmlData(call.xmlData)
  /\ pos' = 0
  /\ phase' = "structure"
  /\ UNCHANGED <<call, ret, semitones, rewriterVars, firstOutput, keyIndex,
                 results, outputFile, closures, playback>>

\* one event of the structure parser
StructureFeed ==
  /\ phase = "structure" /\ pos < Len(xmlData)
  /\ LET tok == xmlData[pos + 1]
     IN combined' =
          IF IsOpenTag(tok) THEN psOpentag(NameOf(tok), tok, combined)
          ELSE IF IsCloseTag(tok) THEN psClosetag(NameOf(tok), combined)
          ELSE psText(tok, combined)
  /\ pos' = pos + 1
  /\ UNCHANGED <<call, ret, xmlData, semitones, phase, rewriterVars,
                 firstOutput, keyIndex, results, outputFile, closures, playback>>

\* parser.on('end'): resolve(structure)
StructureEnd ==
  /\ phase = "structure" /\ pos = Len(xmlData)
  /\ phase' = "structured"
  /\ UNCHANGED <<call, ret, xmlData, pos, semitones, rewriterVars, firstOutput,
                 driverVars>>

\* ------------------------------------------------------- the combined score
\* the top of the loop over the parts: output += `<part id="${part.id}">`
enterPart(c) ==
  IF c.partIndex < Len(c.parts)
    THEN [c EXCEPT !.output =
                     @ \o <<AttrTag("part", "id", c.parts[c.partIndex + 1].id)>>,
                   !.semitone = 0, !.measureIndex = 0]
    ELSE c

\* the loops run from the test of the innermost for up to the next await, or
\* to the return
RECURSIVE runToAwait(_)
runToAwait(c) ==
  IF c.partIndex >= Len(c.parts)
    THEN [c EXCEPT !.output = @ \o <<CloseTag("score-partwise")>>,
                   !.returned = TRUE]
  ELSE IF c.semitone >= KeyCount
    THEN runToAwait(enterPart([c EXCEPT !.output = @ \o <<CloseTag("part")>>,
                                        !.partIndex = @ + 1]))
  ELSE IF c.measureIndex >= Len(c.parts[c.partIndex + 1].measures)
    THEN runToAwait([c EXCEPT !.semitone = @ + 1, !.measureIndex = 0])
  ELSE c

\* the function returns its output, or awaits the rewrite of the next measure
continue(c) ==
  /\ combined' = c
  /\ IF c.returned
       THEN /\ ret' = Some([threw |-> FALSE, value |-> c.output])
            /\ phase' = "idle"
            /\ UNCHANGED <<xmlData, pos, semitones, rewriterVars>>
       ELSE /\ StartPass(
                 cleanXmlData(c.parts[c.partIndex + 1].measures[c.measureIndex + 1]),
                 c.semitone)
            /\ ret' = ret
  /\ UNCHANGED <<call, firstOutput, keyIndex, results, outputFile, closures, playback>>

\* after parseStructure: output += parsedStructure.header, then the loops
EnterLoop ==
  /\ phase = "structured"
  /\ continue(runToAwait(enterPart(
       [combined EXCEPT !.output = @ \o combined.header, !.partIndex = 0])))

\* after the rewrite of a measure: its number, its barline, output += it
PushMeasure ==
  /\ phase = "resolved" /\ ret = Undefined
  /\ LET part == combined.parts[combined.partIndex + 1]
         last == combined.measureIndex = Len(part.measures) - 1
         measureNumber ==
           combined.semitone * Len(part.measures) + combined.measureIndex + 1
         modifiedMeasure ==
           updateBarline(renumber(output, measureNumber),
                         IF combined.semitone = KeyCount - 1 /\ last THEN "final"
                         ELSE IF last THEN "double" ELSE "none")
     IN continue(runToAwait(
          [combined EXCEPT !.output = @ \o modifiedMeasure,
                           !.measureIndex = @ + 1]))

NextCombined ==
  \/ StartStructure \/ StructureFeed \/ StructureEnd \/ EnterLoop
  \/ Feed \/ End \/ PushMeasure

SpecCombined == InitCombined /\ [][NextCombined]_vars

\* ------------------------------------------------------------------ claims
\* the pieces of a text that run from an atom of opens to the next atom close
RECURSIVE pieces(_, _, _)
pieces(x, opens, close) ==
  IF x = <<>> THEN <<>>
  ELSE LET end == firstAt(x, close, 2)
       IN IF Head(x) \in opens /\ end # 0
            THEN <<SubSeq(x, 1, end)>>
                   \o pieces(SubSeq(x, end + 1, Len(x)), opens, close)
            ELSE pieces(Tail(x), opens, close)
partsOf(x) == pieces(x, PartTags, CloseTag("part"))
measuresOf(p) == pieces(p, MeasureTags, CloseTag("measure"))
notesOf(m) == pieces(m, {OpenTag("note")}, CloseTag("note"))

RECURSIVE flatten(_)
flatten(ss) == IF ss = <<>> THEN <<>> ELSE Head(ss) \o flatten(Tail(ss))

\* what the combined score is assembled from, put back together
RECURSIVE partsText(_)
partsText(ps) ==
  IF ps = <<>> THEN <<>>
  ELSE <<AttrTag("part", "id", Head(ps).id)>> \o flatten(Head(ps).measures)
         \o <<CloseTag("part")>> \o partsText(Tail(ps))
reconstructed(c) ==
  c.header \o partsText(c.parts) \o <<CloseTag("score-partwise")>>

\* C19: the result of parseStructure on a well-formed document, put back
\* together as header, then for each part its opening tag, its measures in
\* order and its closing tag, then the closing container tag, is the document
\* text without its preamble: nothing between measures, between parts or on
\* the part tag is lost
C19_StructureReconstructs ==
  phase = "structured" =>
    reconstructed(combined) = cleanXmlData(call.xmlData)

\* the note a source note becomes under the rewrite by s semitones
transposedNote(note, s) ==
  <<OpenTag("note")>> \o transposedPitch(transposeNote(note[4], Some(0), 4, s))
    \o <<CloseTag("note")>>

\* C18: the combined score gives every part of N source measures exactly 12*N
\* measures, the N measures transposed by 0, then by 1, ..., then by 11, and
\* the k-th of them carries measure number k
C18_CombinedMeasures ==
  (ret # Undefined /\ ~ret[1].threw) =>
    LET src == partsOf(cleanXmlData(call.xmlData))
        out == partsOf(ret[1].value)
    IN /\ Len(out) = Len(src)
       /\ \A p \in 1..Len(src) :
            LET sm == measuresOf(src[p])
                om == measuresOf(out[p])
                N == Len(sm)
            IN /\ Len(om) = KeyCount * N
               /\ \A k \in 1..Len(om) :
                    /\ om[k][1] = AttrTag("measure", "number", ToString(k))
                    /\ notesOf(om[k]) =
                         <<transposedNote(notesOf(sm[((k - 1) % N) + 1])[1],
                                          (k - 1) \div N)>>


\* ---------------------------------------------------------------- C21
\* the fifths a source document states, 0 when it has no fifths element
sourceFifths(doc) ==
  IF firstAt(doc, OpenTag("fifths"), 1) = 0 THEN 0 ELSE writtenFifths(doc)

\* C21: when the source has no key signature transposeToAllKeys labels the
\* entries as for fifths 0 / major (fifths 0 when only the fifths is missing,
\* major when only the mode is missing), and each of the 12 documents is the
\* preamble followed by what the rewriter produced for that entry's semitones,
\* whatever the label.
C21_LabelDefaults ==
  /\ allKeysReturned =>
       \A i \in 1..Len(ret[1].value) :
         ret[1].value[i].key =
           _calculateTransposedKeyName(
             [fifths |-> Some(sourceFifths(call.xmlData)),
              mode |-> sourceMode(call.xmlData)],
             ret[1].value[i].semitones)
  /\ (call.op = "transposeToAllKeys" /\ phase = "idle" /\ keyIndex > 0) =>
       /\ results[keyIndex].semitones = semitones
       /\ results[keyIndex].xml = headerOutput(call.xmlData) \o output

\* the list was returned for a document without a key signature, labelled from
\* C major, and for one whose key states only a minor mode, labelled from A
\* minor
C21_Witness ==
  /\ allKeysReturned /\ Len(ret[1].value) = 12
  /\ \/ /\ firstAt(call.xmlData, OpenTag("key"), 1) = 0
        /\ ret[1].value[1].key = <<"C", " major">>
     \/ /\ firstAt(call.xmlData, OpenTag("fifths"), 1) = 0
        /\ firstAt(call.xmlData, OpenTag("mode"), 1) # 0
        /\ ret[1].value[1].key = <<"A", " minor">>


\* =====================================================================
\* SpecPitch: the rewriter on documents of notes
\* =====================================================================
\* the documents of notes hold at most MaxPitchEvents atoms
MaxPitchEvents == 21

\* the grammar of the note documents: the children of an element
pitchChildren(parent) ==
  CASE parent = "" -> {"measure"}
    [] parent = "measure" -> {"note"}
    [] parent = "note" -> {"pitch", "accidental"}
    [] parent = "pitch" -> {"step", "alter", "octave"}
    [] OTHER -> {}

\* the order of the MusicXML schema: step, alter, octave in a pitch, and the
\* pitch before the accidental in a note, each at most once
schemaRank(n) ==
  CASE n \in {"step", "pitch"} -> 1
    [] n \in {"alter", "accidental"} -> 2
    [] n = "octave" -> 3
    [] OTHER -> 0
schemaOrder(names) ==
  {n \in names :
     schemaRank(n) = 0 \/ \A m \in childrenSoFar : schemaRank(m) < schemaRank(n)}

\* the text of a leaf
pitchTexts(parent) ==
  CASE parent = "step" -> {<<"C">>, <<"B">>}
    [] parent = "alter" -> {<<"1">>, <<"-1">>}
    [] parent = "octave" -> {<<"0">>, <<"4">>}
    [] parent = "accidental" -> {<<"sharp">>, <<"flat">>}
    [] OTHER -> {}

\* the shifts of the note documents: down, none, up
PitchShifts == {-MaxShift, 0, MaxShift}

InitPitch == InitRewrite(PitchShifts)

NextPitch ==
  \/ \E name \in schemaOrder(pitchChildren(top)) :
       /\ Len(xmlData) + Len(elementStack) + 2
            + (IF pitchTexts(name) # {} THEN 1 ELSE 0) <= MaxPitchEvents
       /\ GenOpen(name)
  \/ \E t \in pitchTexts(top) : justOpened /\ GenText(t)
  \/ (pitchTexts(top) # {} => ~justOpened) /\ GenClose
  \/ End

SpecPitch == InitPitch /\ [][NextPitch]_vars

\* ------------------------------------------------------------------ claims
\* the pitch element that has just closed, as the source states it
pitchJustClosed == pos > 0 /\ xmlData[pos] = CloseTag("pitch")
closedPitch ==
  blockOf(SubSeq(xmlData, 1, pos), "pitch",
          blockCount(SubSeq(xmlData, 1, pos), "pitch"))
hasField(block, field) == fieldsOf(block, field) # {}
fieldOf(block, field) == CHOOSE x \in fieldsOf(block, field) : TRUE

\* the last n atoms of the output
outputTail(n) == SubSeq(output, Len(output) - n + 1, Len(output))

\* C22: when a pitch closes, the pitch arithmetic gets the captured octave
\* whenever the pitch has an octave element and 4 only when it has none, and
\* the captured alter whenever it has an alter element and 0 only when it has
\* none; a pitch whose octave element holds 0 is transposed from octave 0.
C22_CapturedOctaveAndAlter ==
  (phase = "parsing" /\ pitchJustClosed /\ hasField(closedPitch, "step")) =>
    LET expected ==
          transposedPitch(
            transposeNote(
              fieldOf(closedPitch, "step"),
              Some(IF hasField(closedPitch, "alter")
                     THEN intOf(fieldOf(closedPitch, "alter")) ELSE 0),
              IF hasField(closedPitch, "octave")
                THEN intOf(fieldOf(closedPitch, "octave")) ELSE 4,
              semitones))
    IN Len(output) >= Len(expected) /\ outputTail(Len(expected)) = expected


\* ---------------------------------------------------------------- C23
\* C23: the key-signature rewrite is semitone-accurate: for every fifths in
\* [-7, 7] and every semitones s in [-11, 11] the tonic pitch class of the
\* emitted fifths, 7 * fifths' mod 12, is the tonic pitch class of the original
\* fifths plus s, modulo 12.
C23_SemitoneAccurate ==
  (fifthsClosed /\ call.fifths \in -7..7 /\ call.semitones \in -11..11) =>
    (7 * intOf(emittedFifths)) % 12 = (7 * call.fifths + call.semitones) % 12

\* five sharps have been rewritten eleven semitones down, to no sharps
C23_Witness ==
  /\ phase = "resolved"
  /\ call.fifths = 5 /\ call.semitones = -11
  /\ emittedFifths = "0"


\* ---------------------------------------------------------------- C24
\* what a step has appended to the output
appended == SubSeq(output', Len(output) + 1, Len(output'))
\* a freshly built pitch element for a transposed alter: step, the alter only
\* when it is not 0, octave
IsFreshPitch(p, alter) ==
  LET n == Len(p)
  IN /\ n = IF alter # 0 THEN 11 ELSE 8
     /\ SubSeq(p, 1, 2) = <<OpenTag("pitch"), OpenTag("step")>>
     /\ p[3] \in StepLetters
     /\ p[4] = CloseTag("step")
     /\ alter # 0 =>
          SubSeq(p, 5, 7) = <<OpenTag("alter"), ToString(alter), CloseTag("alter")>>
     /\ p[n - 3] = OpenTag("octave")
     /\ parseInt(p[n - 2]) # Undefined
     /\ SubSeq(p, n - 1, n) = <<CloseTag("octave"), CloseTag("pitch")>>

\* C24: between the opening and the closing of a pitch element nothing is
\* appended to the output; when the pitch closes with a captured step exactly
\* one freshly built pitch element is appended (step, then alter only if the
\* transposed alter is not 0, then octave), the buffer is discarded and the
\* transposed alter, 0 when omitted, is recorded on the note's scratch record.
C24_PitchBuffered ==
  /\ [][(phase = "parsing" /\ insidePitch') => output' = output]_vars
  /\ [][(phase = "parsing" /\ insidePitch /\ ~insidePitch'
           /\ hasField(closedPitch', "step")) =>
          /\ Len(output') >= Len(output)
          /\ SubSeq(output', 1, Len(output)) = output
          /\ noteData'.transposedAlter # Undefined
          /\ IsFreshPitch(appended, noteData'.transposedAlter[1])
          /\ pitchBuffer' = <<>>]_vars

\* a pitch with a step has closed and was emitted with an alter of 1, which
\* the scratch record of the note holds
C24_Witness ==
  /\ pitchJustClosed /\ hasField(closedPitch, "step")
  /\ noteData.transposedAlter = Some(1)
  /\ pitchBuffer = <<>>
  /\ Len(output) >= 11
  /\ IsFreshPitch(outputTail(11), 1)


\* ---------------------------------------------------------------- C25
\* the part of a text from the last opening tag of a note on
lastNote(x) ==
  LET at == positionsOf(x, OpenTag("note"))
  IN IF at = {} THEN <<>>
     ELSE SubSeq(x, CHOOSE i \in at : \A j \in at : j <= i, Len(x))
accidentalJustClosed == pos > 1 /\ xmlData[pos] = CloseTag("accidental")
\* the note being read has a pitch with a step: its pitch was rewritten
notePitched ==
  LET note == lastNote(SubSeq(xmlData, 1, pos))
  IN blockCount(note, "pitch") > 0 /\ hasField(blockOf(note, "pitch", 1), "step")
\* the alter of the pitch emitted for the note being written, 0 when it has none
emittedAlter ==
  LET pitch == blockOf(lastNote(output), "pitch", 1)
  IN IF hasField(pitch, "alter") THEN intOf(fieldOf(pitch, "alter")) ELSE 0
canonicalAccidental(alter) ==
  CASE alter = 2 -> "double-sharp" [] alter = 1 -> "sharp" [] alter = 0 -> "natural"
    [] alter = -1 -> "flat" [] alter = -2 -> "double-flat"
emittedAccidental == output[Len(output) - 1]

\* C25: an accidental that closes inside a note whose pitch was already
\* rewritten is emitted as the canonical name of the alter of the pitch emitted
\* for that note (2 double-sharp, 1 sharp, 0 natural, -1 flat, -2 double-flat);
\* an accidental in a note with no rewritten pitch, also in a note that follows
\* a pitched note, keeps its original text.
C25_AccidentalAgrees ==
  (phase = "parsing" /\ accidentalJustClosed) =>
    /\ output[Len(output)] = CloseTag("accidental")
    /\ emittedAccidental =
         IF notePitched THEN canonicalAccidental(emittedAlter)
         ELSE xmlData[pos - 1]

\* an accidental written flat was emitted as sharp after the pitch of its note,
\* and an accidental in a note without a pitch that follows a pitched note was
\* emitted as it was
C25_Witness ==
  /\ accidentalJustClosed
  /\ \/ notePitched /\ xmlData[pos - 1] = "flat" /\ emittedAccidental = "sharp"
     \/ /\ ~notePitched /\ blockCount(SubSeq(xmlData, 1, pos), "pitch") > 0
        /\ emittedAccidental = xmlData[pos - 1]


\* ---------------------------------------------------------------- C26
\* the block holds one step field and one alter field
stepAndAlter(src, c) ==
  fieldCount(src, stepOf(c)) = 1 /\ fieldCount(src, alterOf(c)) = 1
       /\ fieldsOf(src, stepOf(c)) # {} /\ fieldsOf(src, alterOf(c)) # {}

\* C26: for every root block and every bass block whose source has both a step
\* and an alter field, the step text of the output is the step of the joint
\* transposition of (step, alter) by the interval, not the step of the step
\* alone; bass-step E with bass-alter -1 transposed by +1 yields bass-step E.
C26_JointStep ==
  phase = "resolved" =>
    \A c \in Containers : \A k \in 1..blockCount(xmlData, c) :
      LET src == blockOf(xmlData, c, k)
      IN stepAndAlter(src, c) =>
           fieldsOf(blockOf(output, c, k), stepOf(c)) =
             {spelledStep(sourceStep(src, c), sourceAlter(src, c), semitones)}


\* ---------------------------------------------------------------- C27
\* where the opening tag of the open container c stands in the output
openedAt(c) ==
  CHOOSE i \in positionsOf(output, OpenTag(c)) :
    \A j \in positionsOf(output, OpenTag(c)) : j <= i

\* C27: closing a root or bass container changes only the output of that
\* container's own subtree: all output emitted before the container's opening
\* tag, in particular the root-step and root-alter of every earlier harmony
\* element, is the same after the close as before it.
C27_CloseIsLocal ==
  [][\A c \in Containers :
       (/\ phase = "parsing" /\ insideHarmony /\ top = c
        /\ pos' = pos + 1 /\ xmlData'[pos'] = CloseTag(c)) =>
         /\ Len(output') >= openedAt(c) - 1
         /\ SubSeq(output', 1, openedAt(c) - 1)
              = SubSeq(output, 1, openedAt(c) - 1)]_vars


\* ---------------------------------------------------------------- C28
endsWith(x, tail) ==
  Len(x) >= Len(tail) /\ SubSeq(x, Len(x) - Len(tail) + 1, Len(x)) = tail
barlineCount(m) == Cardinality({i \in 1..Len(m) : IsBarlineOpen(m[i])})

\* C28: in the combined score, for every part, the last measure of the last
\* key ends with a light-heavy barline, the last measure of each other key ends
\* with a light-light barline, and every other measure holds no barline
\* element, whatever barlines the source measures had.
C28_Barlines ==
  (ret # Undefined /\ ~ret[1].threw) =>
    LET src == partsOf(cleanXmlData(call.xmlData))
        out == partsOf(ret[1].value)
    IN \A p \in 1..Len(out) :
         LET N == Len(measuresOf(src[p]))
             om == measuresOf(out[p])
         IN \A k \in 1..Len(om) :
              IF k = KeyCount * N
                THEN endsWith(om[k], barlineOf("light-heavy")
                                       \o <<CloseTag("measure")>>)
              ELSE IF k % N = 0
                THEN endsWith(om[k], barlineOf("light-light")
                                       \o <<CloseTag("measure")>>)
              ELSE barlineCount(om[k]) = 0


\* =====================================================================
\* SpecBarline: calls of SAXMusicXMLParser.updateBarline
\* =====================================================================
\* a barline at the right in each of the styles the source may hold
rightBarlineOf(style) ==
  <<AttrTag("barline", "location", "right"), "<bar-style>", style,
    "</bar-style>", "</barline>">>
BarlineMeasures ==
  {<<AttrTag("measure", "number", number)>> \o left \o note \o right
     \o <<CloseTag("measure")>> :
     number \in {"1", "2", "X1"},
     left \in {<<>>, leftBarline},
     note \in {<<>>, noteOf("C"), noteOf("D")},
     right \in {<<>>, rightBarline, rightBarlineOf("light-light"),
                rightBarlineOf("light-heavy")}}

InitBarline ==
  /\ call \in [measureXML : BarlineMeasures,
               barlineType : {"final", "double", "none"}]
  /\ ret = Undefined
  /\ idle

UpdateBarline ==
  /\ phase = "idle" /\ ret = Undefined
  /\ ret' = Some(updateBarline(call.measureXML, call.barlineType))
  /\ UNCHANGED <<call, xmlData, pos, semitones, phase, rewriterVars, firstOutput,
                 driverVars>>

NextBarline == UpdateBarline

SpecBarline == InitBarline /\ [][NextBarline]_vars

\* C29: after updateBarline(measure, 'final') or updateBarline(measure,
\* 'double') the measure holds exactly one barline element, located at the
\* right, for every measure that held no barline, one, or several (a left
\* repeat barline and a right barline).
C29_OneBarline ==
  (ret # Undefined /\ call.barlineType \in {"final", "double"}) =>
    /\ barlineCount(ret[1]) = 1
    /\ endsWith(ret[1],
                barlineOf(IF call.barlineType = "final" THEN "light-heavy"
                          ELSE "light-light") \o <<CloseTag("measure")>>)


\* ---------------------------------------------------------------- C30
\* where the first part element of a text opens (0 when it has none)
firstPartAt(x) ==
  LET at == {i \in 1..Len(x) : x[i] \in PartTags}
  IN IF at = {} THEN 0 ELSE CHOOSE i \in at : \A j \in at : i <= j
\* the id a part tag states
statedId(tag) == CHOOSE v \in PartIds : tag = AttrTag("part", "id", v)

locals ==
  [xmlData |-> xmlData, pos |-> pos, semitones |-> semitones, phase |-> phase,
   output |-> output, elementStack |-> elementStack,
   currentElement |-> currentElement, textContent |-> textContent,
   insideHarmony |-> insideHarmony, insideKey |-> insideKey,
   insidePitch |-> insidePitch, insideAccidental |-> insideAccidental,
   noteData |-> noteData, harmonyData |-> harmonyData,
   pitchBuffer |-> pitchBuffer]

\* the locals of a call that has not read anything yet
freshLocals(x, s) ==
  [xmlData |-> x, pos |-> 0, semitones |-> s, phase |-> "parsing",
   output |-> <<>>, elementStack |-> <<>>, currentElement |-> null,
   textContent |-> <<>>, insideHarmony |-> FALSE, insideKey |-> FALSE,
   insidePitch |-> FALSE, insideAccidental |-> FALSE,
   noteData |-> emptyNoteData, harmonyData |-> emptyHarmonyData,
   pitchBuffer |-> <<>>]

\* handlers that keep the text accumulator and the capture target on the
\* parser object, where the other call's handlers write them too
closureLocals_onObject(own, current) ==
  [own EXCEPT !.textContent = current.textContent,
              !.currentElement = current.currentElement]

\* what the handlers of a call see when they run after the handlers of
\* another call: the locals of their own closure
closureLocals(own, current) == own

\* the handlers of a call run on these locals
runOn(f) ==
  /\ xmlData' = f.xmlData
  /\ pos' = f.pos
  /\ semitones' = f.semitones
  /\ phase' = f.phase
  /\ output' = f.output
  /\ elementStack' = f.elementStack
  /\ currentElement' = f.currentElement
  /\ textContent' = f.textContent
  /\ insideHarmony' = f.insideHarmony
  /\ insideKey' = f.insideKey
  /\ insidePitch' = f.insidePitch
  /\ insideAccidental' = f.insideAccidental
  /\ noteData' = f.noteData
  /\ harmonyData' = f.harmonyData
  /\ pitchBuffer' = f.pitchBuffer

\* the documents of the two calls: a note with an accidental, a chord symbol
\* whose root loses its alter, a key signature
interleaveNote ==
  <<OpenTag("note"), OpenTag("pitch"), OpenTag("step"), "C", CloseTag("step"),
    OpenTag("octave"), "4", CloseTag("octave"), CloseTag("pitch"),
    OpenTag("accidental"), "flat", CloseTag("accidental"), CloseTag("note")>>
interleaveHarmony ==
  <<OpenTag("harmony"), OpenTag("root"), OpenTag("root-step"), "E",
    CloseTag("root-step"), OpenTag("root-alter"), "-1",
    CloseTag("root-alter"), CloseTag("root"), CloseTag("harmony")>>
InterleaveDocuments == {interleaveNote, interleaveHarmony, keyBody(1, "")}
InterleaveArguments ==
  [xmlData : InterleaveDocuments, semitones : {-MaxShift, MaxShift}]

InitInterleave ==
  /\ call \in [1..2 -> InterleaveArguments]
  /\ ret = Undefined
  /\ idle

\* a call runs with no other call on the object
StartAlone ==
  /\ phase = "idle" /\ Len(closures.alone) < 2
  /\ LET k == Len(closures.alone) + 1
     IN /\ StartPass(call[k].xmlData, call[k].semitones)
        /\ closures' = [closures EXCEPT !.running = k]
  /\ UNCHANGED <<call, ret, firstOutput, keyIndex, results, outputFile,
                 combined, playback>>

\* its promise resolves: the caller keeps the output
NoteAlone ==
  /\ phase = "resolved" /\ closures.saved = <<>>
  /\ closures' = [closures EXCEPT !.running = 0, !.alone = Append(@, output)]
  /\ phase' = "idle"
  /\ UNCHANGED <<call, ret, xmlData, pos, semitones, rewriterVars, firstOutput,
                 keyIndex, results, outputFile, combined,
                 playback>>

\* both calls are made again, each with its parser and its locals; the
\* handlers of the first run first
StartBoth ==
  /\ phase = "idle" /\ Len(closures.alone) = 2 /\ closures.saved = <<>>
  /\ closures' =
       [closures EXCEPT !.running = 1,
          !.saved = <<freshLocals(call[1].xmlData, call[1].semitones),
                      freshLocals(call[2].xmlData, call[2].semitones)>>]
  /\ runOn(freshLocals(call[1].xmlData, call[1].semitones))
  /\ UNCHANGED <<call, ret, firstOutput, keyIndex, results, outputFile,
                 combined, playback>>

\* the next event is one of the other call, which has events left
Switch ==
  /\ closures.saved # <<>>
  /\ LET k == closures.running
         other == 3 - k
     IN /\ closures.saved[other].phase = "parsing"
        /\ closures' = [closures EXCEPT !.running = other, !.saved[k] = locals]
        /\ runOn(closureLocals(closures.saved[other], locals))
  /\ UNCHANGED <<call, ret, firstOutput, keyIndex, results, outputFile,
                 combined, playback>>

NextInterleave ==
  StartAlone \/ Feed \/ End \/ NoteAlone \/ StartBoth \/ Switch

SpecInterleave == InitInterleave /\ [][NextInterleave]_vars

\* the locals of call k of the interleaved calls
localsOf(k) == IF closures.running = k THEN locals ELSE closures.saved[k]

intervalOf(s) ==
  IF s < 10 THEN <<Digits[s + 1]>>
  ELSE <<Digits[(s \div 10) + 1], Digits[(s % 10) + 1]>>

IndependentDocuments ==
  {p \o b : p \in {<<>>, <<XmlDecl, "\n", DoctypeWhole, "\n">>},
            b \in {keyBody(0, ""), keyBody(5, "major"), keyBody(-7, "minor"),
                   harmonyBody, noteBody, interleaveNote, interleaveHarmony,
                   malformedBody}}

InitIndependent ==
  /\ call \in [op : {"transposeByInterval"}, xmlData : IndependentDocuments,
               keyOrder : {"chromatic", "fourths"},
               interval : {intervalOf(s) : s \in 0..(KeyCount - 1)}]
  /\ ret = Undefined
  /\ idle

\* the caller keeps what transposeByInterval returned or threw and calls
\* transposeToAllKeys on the same document
ThenAllKeys ==
  /\ call.op = "transposeByInterval" /\ ret # Undefined
  /\ closures' = [closures EXCEPT !.alone = <<ret[1]>>]
  /\ call' = [call EXCEPT !.op = "transposeToAllKeys"]
  /\ ret' = Undefined
  /\ phase' = "idle"
  /\ UNCHANGED <<xmlData, pos, semitones, rewriterVars, firstOutput, keyIndex,
                 results, outputFile, combined,
                 playback>>

NextIndependent ==
  \/ StartInterval
  \/ ReturnInterval
  \/ ThenAllKeys
  \/ StartKey
  \/ PushKey
  \/ ReturnAll
  \/ Catch
  \/ Feed
  \/ End

SpecIndependent == InitIndependent /\ [][NextIndependent]_vars

\* C32: the sub-rewrites of transposeToAllKeys are independent and pure: the
\* document of the entry with semitones s is the output of transposeByInterval
\* of the same document by s, whatever the position of s in the key sequence
\* and whatever rewrites ran before it.
C32_EntriesIndependent ==
  call.op = "transposeToAllKeys" =>
    \A i \in 1..Len(results) :
      results[i].semitones = parseInterval(call.interval).value =>
        /\ ~closures.alone[1].threw
        /\ results[i].xml = closures.alone[1].value

\* the entry for 11 semitones of a note document with a declaration was
\* pushed eighth, in the order of fourths, with a rewritten pitch
C32_Witness ==
  /\ call.op = "transposeToAllKeys" /\ call.keyOrder = "fourths"
  /\ call.interval = <<"1", "1">>
  /\ call.xmlData = <<XmlDecl, "\n", DoctypeWhole, "\n">> \o interleaveNote
  /\ Len(results) >= 8
  /\ results[8].semitones = 11
  /\ results[8].xml = closures.alone[1].value
  /\ results[8].xml # call.xmlData



\* =====================================================================
\* SpecNesting: one rewrite of a document whose elements nest freely
\* =====================================================================
\* the documents hold at most MaxNestEvents tags
MaxNestEvents == 8

\* the elements that set a context flag, and one that sets none
NestNames == {"pitch", "harmony", "key", "accidental", "measure"}

InitNesting == InitRewrite({0})

NextNesting ==
  \/ \E name \in NestNames :
       /\ Len(xmlData) + Len(elementStack) + 2 <= MaxNestEvents
       /\ GenOpen(name)
  \/ GenClose
  \/ End

SpecNesting == InitNesting /\ [][NextNesting]_vars

\* the element is on the stack of open elements
onStack(name) == \E i \in 1..Len(elementStack) : elementStack[i] = name
\* the elements the document read so far has opened and not closed
openElements ==
  Cardinality({i \in 1..pos : IsOpenTag(xmlData[i])})
    - Cardinality({i \in 1..pos : IsCloseTag(xmlData[i])})

\* C33: the context flags are derived from the element stack: at every point
\* of the pass, also when an element nests inside another of the same name,
\* insidePitch, insideHarmony, insideKey and insideAccidental are true exactly
\* when pitch, harmony, key, accidental is on the stack of open elements; the
\* depth of the stack is the number of open elements, and at the end event the
\* stack is empty and all flags are false.
C33_FlagsFromStack ==
  phase \in {"parsing", "resolved"} =>
    /\ insidePitch <=> onStack("pitch")
    /\ insideHarmony <=> onStack("harmony")
    /\ insideKey <=> onStack("key")
    /\ insideAccidental <=> onStack("accidental")
    /\ Len(elementStack) = openElements
    /\ phase = "resolved" =>
         /\ elementStack = <<>>
         /\ ~(insidePitch \/ insideHarmony \/ insideKey \/ insideAccidental)



\* =====================================================================
\* SpecStray: one rewrite of a document whose capturable leaves also occur
\* outside their containers
\* =====================================================================
\* the documents hold at most MaxStrayEvents atoms
MaxStrayEvents == 12

\* the capturable leaves and the container each one needs
containerOf(leaf) ==
  CASE leaf \in {"step", "alter", "octave"} -> "pitch"
    [] leaf \in {"root-step", "root-alter", "bass-step", "bass-alter"} ->
         "harmony"
    [] leaf = "fifths" -> "key"
    [] OTHER -> ""
Capturable == {n \in Names : containerOf(n) # ""}

\* the grammar of the documents: the children of an element
strayChildren(parent) ==
  CASE parent = "" -> {"note", "harmony", "key"}
    [] parent = "note" -> {"pitch", "step", "fifths", "root-step"}
    [] parent = "pitch" -> {"step", "octave", "fifths", "root-step"}
    [] parent = "harmony" -> {"root", "step", "alter", "fifths"}
    [] parent = "root" -> {"root-step", "root-alter", "octave"}
    [] parent = "key" -> {"fifths", "step", "root-alter"}
    [] OTHER -> {}

\* the text of a leaf
strayTexts(parent) ==
  CASE parent \in {"step", "root-step"} -> {<<"E">>}
    [] parent \in {"alter", "root-alter", "fifths"} -> {<<"1">>}
    [] parent = "octave" -> {<<"4">>}
    [] OTHER -> {}

InitStray == InitRewrite({0, MaxShift})

NextStray ==
  \/ \E name \in allowed(strayChildren(top)) :
       /\ Len(xmlData) + Len(elementStack) + 2
            + (IF strayTexts(name) # {} THEN 1 ELSE 0) <= MaxStrayEvents
       /\ GenOpen(name)
  \/ \E t \in strayTexts(top) : justOpened /\ GenText(t)
  \/ (strayTexts(top) # {} => ~justOpened) /\ GenClose
  \/ End

SpecStray == InitStray /\ [][NextStray]_vars

\* the element is open before atom i of a text
openBefore(x, name, i) ==
  Cardinality({j \in 1..(i - 1) : x[j] = OpenTag(name)})
    > Cardinality({j \in 1..(i - 1) : x[j] = CloseTag(name)})
\* where the capturable leaves without an open container start in a text
strayAt(x) ==
  {i \in 1..Len(x) :
     \E n \in Capturable :
       x[i] = OpenTag(n) /\ ~openBefore(x, containerOf(n), i)}
\* those leaves, tags and text, in the order of the text
strayLeaves(x) ==
  [k \in 1..Cardinality(strayAt(x)) |->
     LET i == nth(strayAt(x), k)
     IN SubSeq(x, i, firstAt(x, CloseTag(NameOf(x[i])), i + 1))]
\* the open element is such a leaf
strayOpen ==
  /\ top \in Capturable
  /\ \A i \in 1..Len(elementStack) : elementStack[i] # containerOf(top)

\* C34: a leaf whose name is capturable but which has no matching open
\* container is never a capture target: its text and tags are emitted
\* unchanged and it changes no note or harmony scratch record.
C34_StrayLeafPassesThrough ==
  /\ [](phase = "parsing" /\ strayOpen => currentElement = null)
  /\ [][(phase = "parsing" /\ strayOpen /\ pos' = pos + 1
           /\ xmlData'[pos'] = CloseTag(top)) =>
          noteData' = noteData /\ harmonyData' = harmonyData]_vars
  /\ [](phase = "resolved" => strayLeaves(output) = strayLeaves(xmlData))



\* ---------------------------------------------------------------- C35
\* the elements left open when the tags of a text are read in order onto a
\* stack of open elements, or a closing tag that matches no open element
RECURSIVE leftOpen(_, _)
leftOpen(x, open) ==
  IF x = <<>> THEN open
  ELSE IF IsOpenTag(x[1]) THEN leftOpen(Tail(x), Append(open, NameOf(x[1])))
  ELSE IF IsCloseTag(x[1])
    THEN IF open # <<>> /\ open[Len(open)] = NameOf(x[1])
           THEN leftOpen(Tail(x), SubSeq(open, 1, Len(open) - 1))
           ELSE <<"mismatch">>
  ELSE leftOpen(Tail(x), open)
wellNested(x) == leftOpen(x, <<>>) = <<>>

\* C35: for every well-nested input the output of the rewriter is well-nested:
\* every opening tag written to the output is followed by its matching closing
\* tag; in particular a pitch element that closes without a captured step is
\* emitted with both its opening and its closing tag.
C35_OutputWellNested ==
  phase = "resolved" /\ wellNested(xmlData) => wellNested(output)



\* =====================================================================
\* SpecPlayback: calls of MusicPlaybackService.play and stop, the resumption
\* of a play suspended at await Tone.start(), and the timers of setTimeout
\* =====================================================================
\* calls of play() in a behaviour
MaxPlays == 3
\* notes of the loaded sequence: note i starts at second i - 1 and lasts one
NoteCount == 2
\* seconds of the clock
MaxTime == 6

rewriteVars ==
  <<call, ret, xmlData, pos, semitones, phase, rewriterVars, firstOutput,
    keyIndex, results, outputFile, combined, closures>>

\* stop(): isPlaying = false, every timeout of scheduledTimeouts is cleared,
\* the list is emptied; the plays called so far are stopped ones
stop(pb, earlier) ==
  LET listed == {pb.scheduledTimeouts[i] : i \in 1..Len(pb.scheduledTimeouts)}
  IN [pb EXCEPT !.isPlaying = FALSE,
                !.timers = {t \in @ : t.id \notin listed},
                !.scheduledTimeouts = <<>>,
                !.owner = 0,
                !.stopped = earlier]

\* play() after its await: isPlaying = true, one timeout per note, pushed to
\* scheduledTimeouts, and the timeout of the end of the sequence, one second
\* after the last note ends, which is not pushed
schedule(pb, p) ==
  LET notes == {[id |-> pb.ids + i, kind |-> "note", play |-> p,
                 due |-> pb.now + (i - 1)] : i \in 1..NoteCount}
      end == [id |-> pb.ids + NoteCount + 1, kind |-> "end", play |-> p,
              due |-> pb.now + NoteCount + 1]
  IN [pb EXCEPT !.isPlaying = TRUE,
                !.owner = p,
                !.timers = @ \cup notes \cup {end},
                !.scheduledTimeouts = @ \o [i \in 1..NoteCount |-> pb.ids + i],
                !.ids = @ + NoteCount + 1]

\* play() up to its await: stop() when playing, then Tone.start() is awaited
\* unless the audio context runs
play(pb) ==
  LET p == pb.plays + 1
      pb1 == IF pb.isPlaying THEN stop(pb, p - 1) ELSE pb
      pb2 == [pb1 EXCEPT !.plays = p]
  IN IF pb2.running THEN schedule(pb2, p)
     ELSE [pb2 EXCEPT !.awaiting = @ \cup {p}]

\* the callback of a timeout
fire(pb, t) ==
  LET pb1 == [pb EXCEPT !.timers = @ \ {t},
                        !.last = [kind |-> t.kind, play |-> t.play,
                                  owner |-> pb.owner,
                                  sounded |-> t.kind = "note" /\ pb.isPlaying,
                                  stopped |-> pb.stopped]]
  IN IF t.kind = "end" /\ pb.isPlaying THEN stop(pb1, pb.plays) ELSE pb1

\* the timeout the host runs next: the earliest due, the oldest among equals
isNext(pb, t) ==
  /\ t.due <= pb.now
  /\ \A u \in pb.timers :
       u.due > t.due \/ (u.due = t.due /\ u.id >= t.id)

InitPlayback ==
  /\ call = Undefined /\ ret = Undefined
  /\ xmlData = <<>> /\ pos = 0 /\ semitones = 0 /\ phase = "idle"
  /\ firstOutput = <<>>
  /\ keyIndex = 0 /\ results = <<>> /\ outputFile = Undefined
  /\ combined = emptyCombined /\ closures = noClosures
  /\ InitRewriter
  /\ playback \in {newPlayback(r) : r \in BOOLEAN}

Play ==
  /\ playback.plays < MaxPlays
  /\ playback' = play(playback)
  /\ UNCHANGED rewriteVars

\* Tone.start() has resolved for the play that waited longest
Resume ==
  /\ playback.awaiting # {}
  /\ LET p == CHOOSE q \in playback.awaiting :
                \A r \in playback.awaiting : q <= r
     IN playback' =
          schedule([playback EXCEPT !.awaiting = @ \ {p}, !.running = TRUE], p)
  /\ UNCHANGED rewriteVars

Stop ==
  /\ playback.plays > 0
  /\ playback' = stop(playback, playback.plays)
  /\ UNCHANGED rewriteVars

Fire ==
  /\ \E t \in playback.timers :
       isNext(playback, t) /\ playback' = fire(playback, t)
  /\ UNCHANGED rewriteVars

Tick ==
  /\ playback.now < MaxTime
  /\ \A t \in playback.timers : t.due > playback.now
  /\ playback' = [playback EXCEPT !.now = @ + 1]
  /\ UNCHANGED rewriteVars

NextPlayback == Play \/ Resume \/ Stop \/ Fire \/ Tick

SpecPlayback == InitPlayback /\ [][NextPlayback]_vars

\* C36: a playback started by play() stays in the playing state until its own
\* end-of-sequence timer fires or stop() is called: the end-of-sequence timer
\* scheduled by one play() never stops the playback of another.
C36_OwnEndTimer ==
  (playback.last.kind = "end" /\ playback.last.owner # 0) =>
    playback.last.owner = playback.last.play

\* C37: after stop() returns no note callback scheduled by an earlier play()
\* triggers a note, also when a play() is suspended at its await while another
\* play() or stop() runs; at any time the pending note timers all belong to
\* the most recent play().
C37_StopSilences ==
  /\ playback.last.sounded => playback.last.play > playback.last.stopped
  /\ \A t \in playback.timers : t.kind = "note" => t.play = playback.plays

====
